---- MODULE Spec2Model ----
(***************************************************************************)
(* Model of the annotation pipeline of openllm-ocr-annotator:              *)
(*   - AnnotatorProcessor (pipeline/annotator_processor.py): the cache     *)
(*     check, annotate, parse/validate and save of one image, in           *)
(*     single-result mode and in sampling mode;                            *)
(*   - ParallelProcessor (pipeline/parallel_processor.py): one OS process  *)
(*     per annotator config, joined by run_parallel;                       *)
(*   - run_batch_annotation (pipeline/run_annotation.py) and VotingManager *)
(*     (voters/manager.py): the voting loop over the images.               *)
(* The file system is a function from paths to file contents.  A JSON      *)
(* value, a model completion and an annotate() return value are records    *)
(* of one shape each, so that any two of them can be compared.             *)
(***************************************************************************)
EXTENDS Integers, Sequences, FiniteSets, TLC

VARIABLES
    files,      \* the output tree: path -> file content
    now,        \* the wall clock read by time.time() / time.strftime()
    ncalls,     \* number of process_single_image calls made so far
    ndeletes,   \* number of cache files removed by external cleanup so far
    proc,       \* the annotator whose AnnotatorProcessor is being driven
    last,       \* what the last process_single_image call did
    failed,     \* annotators' images whose last call returned no result
    annotator_configs, \* the annotator configs given to run_batch_annotation
    max_workers,\* the size of the thread pool of each processor
    method,     \* the ensemble method of the task
    run,        \* which run of the batch this is: "none", "first" or "second"
    phase,      \* where run_batch_annotation is
    si,         \* number of rounds done of the spawning loop of run_parallel
    nspawn,     \* per annotator: number of processes started for it in this run
    unit,       \* per annotator: the state of its process
    task,       \* per annotator and image: the state of its thread-pool task
    vi,         \* number of rounds done of the voting loop
    voteLog,    \* per image: what its round of the voting loop did
    voter,      \* the voter that run_batch_annotation has constructed
    remote,     \* number of annotate() invocations since the run began
    fullAtStart,\* whether every cache slot of the batch was valid when the run began
    votedBefore,\* per image: the voted-result file when the run began
    layout,     \* a pair of annotator configs and a pair of images of one run
    writing,    \* the saves under way: config, image and sample index of each
    ballots,    \* the annotations handed to a voter, with their annotator ids
    verdict,    \* what the voter returned for them
    wrapper     \* the frame of a call through retry_with_backoff

-----------------------------------------------------------------------------
(* Bounds of the model *)

MaxClock == 1
MaxCalls == 2
MaxDeletes == 1
\* the largest thread pool of a processor (max_workers)
MaxWorkers == 2
\* the most results that one vote is taken over
MaxBallots == 3
\* the largest max_retries that a function is decorated with
MaxRetries == 2

-----------------------------------------------------------------------------
(* JSON values *)

Field(n, v, c) == [field_name |-> n, value |-> v, confidence |-> c]
F1 == Field("total", "10", 90)
F2 == Field("total", "70", 60)

Obj(hasFields, flds, other) ==
    [kind |-> "obj", hasFields |-> hasFields, flds |-> flds, other |-> other, text |-> ""]
Str(s) == [kind |-> "str", hasFields |-> FALSE, flds |-> <<>>, other |-> 0, text |-> s]
NullJ == [kind |-> "null", hasFields |-> FALSE, flds |-> <<>>, other |-> 0, text |-> ""]
InvalidJ == [kind |-> "invalid", hasFields |-> FALSE, flds |-> <<>>, other |-> 0, text |-> ""]
EmptyObj == Obj(FALSE, <<>>, 0)
\* a list of n completions, the first of which is the text s
Lst(n, s) == [kind |-> "list", hasFields |-> FALSE, flds |-> <<>>, other |-> n, text |-> s]

\* Python's truth value of a JSON value: {} , "" and None are false.
Truthy(j) ==
    CASE j.kind = "obj" -> j.hasFields \/ j.other > 0
      [] j.kind = "str" -> j.text # ""
      [] j.kind = "list" -> j.other > 0
      [] OTHER -> FALSE

\* the shape {"fields": [<at least one field>]}
HasFieldList(j) == j.kind = "obj" /\ j.hasFields /\ Len(j.flds) > 0

-----------------------------------------------------------------------------
(* Model completions: what the regular expression of parse_json_from_text  *)
(* finds in the text, and what json.loads makes of the whole text.         *)

Text(id, fenced, fjson, whole) ==
    [id |-> id, fenced |-> fenced, fjson |-> fjson, whole |-> whole]

TFenced == Text("fenced", TRUE, Obj(TRUE, <<F1>>, 0), InvalidJ)
TBare == Text("bare", FALSE, InvalidJ, Obj(TRUE, <<F2>>, 0))
TEmptyFields == Text("emptyfields", FALSE, InvalidJ, Obj(TRUE, <<>>, 0))
TNoFields == Text("nofields", TRUE, Obj(FALSE, <<>>, 1), InvalidJ)
TProse == Text("prose", FALSE, InvalidJ, InvalidJ)
TBadFence == Text("badfence", TRUE, InvalidJ, InvalidJ)
TEmpty == Text("", FALSE, InvalidJ, InvalidJ)

Texts == {TFenced, TBare, TEmptyFields, TNoFields, TProse, TBadFence}

parse_json_from_text(t) ==
    IF t.fenced /\ t.fjson.kind # "invalid" THEN t.fjson
    ELSE IF t.whole.kind # "invalid" THEN t.whole
    ELSE EmptyObj

-----------------------------------------------------------------------------
(* Annotator configurations, images and paths *)

Config(name, type, model, num_samples, temperature, weight) ==
    [name |-> name, type |-> type, model |-> model,
     num_samples |-> num_samples, temperature |-> temperature, weight |-> weight]

\* one single-result OpenAI annotator whose configured name is the name of its
\* class, one sampling OpenAI annotator and one single-result Gemini annotator
Configs ==
    [A1 |-> Config("OpenAIAnnotator", "openai", "gpt-4o", 1, "", 1),
     A2 |-> Config("gpts", "openai", "gpt-4o", 2, "0.7", 2),
     A3 |-> Config("gem", "gemini", "gemini-pro", 1, "", 1)]

Annotators == DOMAIN Configs

Image(stem, ext) == [stem |-> stem, ext |-> ext]
\* the list that get_image_files gives for the input directory
image_files == <<Image("inv1", ".png"), Image("inv2", ".jpg")>>
Images == {image_files[k] : k \in DOMAIN image_files}

\* a path below the output directory: annotator name, model version, sampling
\* directory ("" outside sampling mode), sample index (-1 outside sampling
\* mode) and file stem
Path(name, model, sdir, k, stem) == <<name, model, sdir, k, stem>>

sampling_dir(cfg) ==
    IF cfg.temperature # "" THEN "sampling_" \o cfg.temperature ELSE "sampling"

\* AnnotatorProcessor.sample_dirs followed by f"{img_path.stem}.json"
sample_paths(cfg, img) ==
    IF cfg.num_samples > 1
    THEN [k \in 1..cfg.num_samples |->
             Path(cfg.name, cfg.model, sampling_dir(cfg), k - 1, img.stem)]
    ELSE <<Path(cfg.name, cfg.model, "", -1, img.stem)>>

ProcessorPaths == UNION {{sample_paths(Configs[a], i)[k] :
                             k \in DOMAIN sample_paths(Configs[a], i)} :
                         a \in Annotators, i \in Images}

SamplePaths == [a \in Annotators |-> [i \in Images |-> sample_paths(Configs[a], i)]]

OwnPaths(a) == UNION {{sample_paths(Configs[a], i)[k] :
                           k \in DOMAIN sample_paths(Configs[a], i)} : i \in Images}

\* the class of the annotator that create_annotator builds for a config
class_name(cfg) ==
    CASE cfg.type = "openai" -> "OpenAIAnnotator"
      [] cfg.type = "claude" -> "ClaudeAnnotator"
      [] OTHER -> "GeminiAnnotator"

\* VotingManager: annotator_dir / f"{image_stem}.json" and the result key
voter_path(cfg, img) == Path(class_name(cfg), cfg.model, "", -1, img.stem)
voter_id(cfg) == class_name(cfg) \o "/" \o cfg.model
\* VotingManager.get_voted_result: voted_dir / f"{img_path.stem}.json"
voted_path(img) == Path("voted_results", "", "", -1, img.stem)

VotingPaths == {voter_path(Configs[a], i) : a \in Annotators, i \in Images}
                  \cup {voted_path(i) : i \in Images}

Paths == ProcessorPaths \cup VotingPaths

-----------------------------------------------------------------------------
(* File contents *)

\* A file: whether it is there and complete (st), its "result" value, the keys
\* of its "metadata" object with the values of "timestamp" (ts), "sample_id"
\* (sample, -1 when there is none) and "annotators".
File(st, result, mkeys, ts, sample, annotators) ==
    [st |-> st, result |-> result, mkeys |-> mkeys, ts |-> ts, sample |-> sample,
     annotators |-> annotators]
\* the file of a processor: metadata of lines 178-185
Content(st, result, ts, sample) ==
    File(st, result,
         IF sample = -1 THEN {"timestamp"} ELSE {"timestamp", "sample_id", "temperature"},
         ts, sample, <<>>)
Absent == File("absent", NullJ, {}, 0, -1, <<>>)
\* a file opened for writing whose json.dump did not complete
Partial == File("partial", NullJ, {}, 0, -1, <<>>)

\* json.load of a file: only a completely written file loads
Loads(c) == c.st = "full"

Ret(some, vals) == [some |-> some, vals |-> vals]
None == Ret(FALSE, <<>>)

-----------------------------------------------------------------------------
(* What annotate() gives back *)

Raw(kind, hasResult, shape, texts) ==
    [kind |-> kind, hasResult |-> hasResult, shape |-> shape, texts |-> texts]
RawRaise == Raw("raise", FALSE, "none", <<>>)
\* the value of retry_with_backoff after its last attempt:
\* {"status": "error", "message": ...}
RawError == Raw("dict", FALSE, "none", <<>>)
\* {"result": [choice.message.content ...], "model": ..., ...}
RawList(ts) == Raw("dict", TRUE, "list", ts)
\* {"result": response.text, "model": ..., ...}
RawStr(t) == Raw("dict", TRUE, "str", <<t>>)
\* one completion, as _process_sampling_mode hands it on
RawText(t) == Raw("text", FALSE, "none", <<t>>)

\* the completions drawn for each kind of annotator
Completions(cfg) ==
    IF cfg.type # "openai" THEN {TFenced, TProse, TEmpty}
    ELSE IF cfg.num_samples > 1 THEN {TBare, TProse}
    ELSE {TBare, TEmptyFields, TNoFields, TProse}

\* OpenAIAnnotator.annotate is wrapped by retry_with_backoff and never raises:
\* it gives the error value or one completion per requested sample (n).
\* GeminiAnnotator.annotate is not wrapped: it raises or gives one text.
AnnotateOutcomes(cfg) ==
    IF cfg.type = "openai"
    THEN {RawError} \cup
         {RawList(ts) : ts \in [1..cfg.num_samples -> Completions(cfg)]}
    ELSE {RawRaise} \cup {RawStr(t) : t \in Completions(cfg)}

AnnotateFailed(raw) == raw.kind = "raise" \/ (raw.kind = "dict" /\ ~raw.hasResult)


-----------------------------------------------------------------------------
(* AnnotatorProcessor *)

Parsed(ok, content) == [ok |-> ok, content |-> content]
Invalid == Parsed(FALSE, Absent)

\* as parse_and_validate_result, without the check of lines 170-175
parse_and_validate_result_unchecked(raw, sample_id, t) ==
    Parsed(TRUE, Content("full",
                         IF raw.hasResult /\ Len(raw.texts) > 0
                         THEN parse_json_from_text(raw.texts[1]) ELSE NullJ,
                         t, sample_id))

\* AnnotatorProcessor._parse_and_validate_result: the parsed result with its
\* metadata, or Invalid for None.  sample_id is -1 for None.
parse_and_validate_result(raw, sample_id, t) ==
    LET result ==
            IF raw.kind = "text"
            THEN parse_json_from_text(raw.texts[1])
            ELSE IF raw.hasResult /\ raw.shape = "list"
            THEN (IF Len(raw.texts) = 0 THEN InvalidJ      \* IndexError, caught
                  ELSE parse_json_from_text(raw.texts[1]))
            ELSE IF raw.hasResult                          \* a str is left as it is
            THEN Str(raw.texts[1].id)
            ELSE NullJ                                     \* no "result" key
    IN  IF ~Truthy(result) THEN Invalid
        ELSE Parsed(TRUE, Content("full", result, t, sample_id))

SaveOutcomes == {"ok", "open_fails", "write_fails", "killed"}

\* how the saves of one call can go: all succeed, or one of them fails or is
\* interrupted
SaveRuns(n) ==
    {[k \in 1..n |-> "ok"]} \cup
    {[k \in 1..n |-> IF k = j THEN o ELSE "ok"] : j \in 1..n, o \in SaveOutcomes \ {"ok"}}

\* as save_result, leaving an empty file behind when the save fails at once
save_result_touching(fs, content, save_path, outcome) ==
    IF outcome = "ok" THEN [fs EXCEPT ![save_path] = content]
    ELSE [fs EXCEPT ![save_path] = Partial]

\* AnnotatorProcessor._save_result: open(save_path, "w") truncates the file and
\* json.dump writes it piece by piece; an exception is logged and swallowed.
\* "killed" is the process being killed while the file is being written.
save_result(fs, content, save_path, outcome) ==
    CASE outcome = "ok" -> [fs EXCEPT ![save_path] = content]
      [] outcome = "open_fails" -> fs
      [] OTHER -> [fs EXCEPT ![save_path] = Partial]

\* the outcome of a call: the files it leaves, the value it returns, whether it
\* invoked annotate(), the paths it opened for writing, whether the process
\* was killed in it and whether it raised
Done(fs, ret, invoked, written, killed) ==
    [files |-> fs, ret |-> ret, invoked |-> invoked, written |-> written,
     killed |-> killed, raised |-> FALSE]

\* as single_cache_hit, with the test of the payload inverted
single_cache_hit_inverted(fs, result_path) ==
    Loads(fs[result_path]) /\ ~Truthy(fs[result_path].result)

\* as single_cache_hit, without the test of the payload
single_cache_hit_unchecked(fs, result_path) == Loads(fs[result_path])

\* the cache check of _process_single_mode (lines 229-237)
single_cache_hit(fs, result_path) ==
    Loads(fs[result_path]) /\ Truthy(fs[result_path].result)

\* as annotate_and_save_single, letting the exception of annotate() out
annotate_and_save_single_raising(fs, cfg, img, raw, outcome, t) ==
    LET result_path == sample_paths(cfg, img)[1]
        processed == parse_and_validate_result(raw, -1, t)
    IN  IF raw.kind = "raise"
        THEN [Done(fs, None, TRUE, {}, FALSE) EXCEPT !.raised = TRUE]
        ELSE IF ~processed.ok
        THEN Done(fs, None, TRUE, {}, FALSE)
        ELSE Done(save_result(fs, processed.content, result_path, outcome),
                  Ret(TRUE, <<processed.content>>), TRUE,
                  IF outcome = "open_fails" THEN {} ELSE {result_path}, FALSE)

\* lines 239-254 of _process_single_mode: what follows a cache miss
annotate_and_save_single(fs, cfg, img, raw, outcome, t) ==
    LET result_path == sample_paths(cfg, img)[1]
        processed == parse_and_validate_result(raw, -1, t)
    IN  IF raw.kind = "raise" \/ ~processed.ok
        THEN Done(fs, None, TRUE, {}, FALSE)
        ELSE Done(save_result(fs, processed.content, result_path, outcome),
                  IF outcome = "killed" THEN None ELSE Ret(TRUE, <<processed.content>>),
                  TRUE,
                  IF outcome = "open_fails" THEN {} ELSE {result_path},
                  outcome = "killed")

\* as process_single_mode, without the cache check
process_single_mode_nocache(fs, cfg, img, raw, outcome, t) ==
    annotate_and_save_single(fs, cfg, img, raw, outcome, t)

\* AnnotatorProcessor._process_single_mode
process_single_mode(fs, cfg, img, raw, outcome, t) ==
    LET result_path == sample_paths(cfg, img)[1]
    IN  IF single_cache_hit(fs, result_path)
        THEN Done(fs, Ret(TRUE, <<fs[result_path]>>), FALSE, {}, FALSE)
        ELSE annotate_and_save_single(fs, cfg, img, raw, outcome, t)

\* as cached_samples, taking every sample file that exists
RECURSIVE cached_samples_existing(_, _, _)
cached_samples_existing(fs, paths, k) ==
    IF k > Len(paths) THEN <<>>
    ELSE (IF fs[paths[k]] # Absent THEN <<fs[paths[k]]>> ELSE <<>>)
         \o cached_samples_existing(fs, paths, k + 1)

\* the cached samples that load, in sample order (lines 261-268)
RECURSIVE cached_samples(_, _, _)
cached_samples(fs, paths, k) ==
    IF k > Len(paths) THEN <<>>
    ELSE (IF Loads(fs[paths[k]]) THEN <<fs[paths[k]]>> ELSE <<>>)
         \o cached_samples(fs, paths, k + 1)

\* the loop over the completions (lines 283-292), from completion k on
RECURSIVE save_samples(_, _, _, _, _, _, _)
save_samples(acc, paths, texts, outcomes, t, k, results) ==
    IF k > Len(texts) \/ acc.killed THEN [acc EXCEPT !.ret = IF acc.killed THEN None ELSE results]
    ELSE LET processed == parse_and_validate_result(RawText(texts[k]), k - 1, t)
         IN  IF ~processed.ok
             THEN save_samples(acc, paths, texts, outcomes, t, k + 1, results)
             ELSE IF k > Len(paths)                        \* IndexError, caught
             THEN [acc EXCEPT !.ret = None]
             ELSE save_samples(
                      [acc EXCEPT
                          !.files = save_result(@, processed.content, paths[k], outcomes[k]),
                          !.written = IF outcomes[k] = "open_fails" THEN @ ELSE @ \cup {paths[k]},
                          !.killed = outcomes[k] = "killed"],
                      paths, texts, outcomes, t, k + 1,
                      Ret(TRUE, Append(results.vals, processed.content)))

\* as the lines 274-298 of _process_sampling_mode, saving the completions that
\* validate in the first sample directories
annotate_and_save_samples_packed(fs, cfg, img, raw, outcomes, t) ==
    IF raw.kind = "raise"
    THEN Done(fs, None, TRUE, {}, FALSE)
    ELSE save_samples(Done(fs, None, TRUE, {}, FALSE), sample_paths(cfg, img),
                      IF raw.hasResult
                      THEN SelectSeq(raw.texts,
                                     LAMBDA x : Truthy(parse_json_from_text(x)))
                      ELSE <<>>,
                      outcomes, t, 1, None)

\* lines 274-298 of _process_sampling_mode: what follows a cache miss
annotate_and_save_samples(fs, cfg, img, raw, outcomes, t) ==
    IF raw.kind = "raise"
    THEN Done(fs, None, TRUE, {}, FALSE)
    ELSE save_samples(Done(fs, None, TRUE, {}, FALSE), sample_paths(cfg, img),
                      IF raw.hasResult THEN raw.texts ELSE <<>>,
                      outcomes, t, 1, None)

\* as process_sampling_mode, returning the cached samples as soon as there is one
process_sampling_mode_anycached(fs, cfg, img, raw, outcomes, t) ==
    LET results == cached_samples(fs, sample_paths(cfg, img), 1)
    IN  IF Len(results) > 0
        THEN Done(fs, Ret(TRUE, results), FALSE, {}, FALSE)
        ELSE annotate_and_save_samples(fs, cfg, img, raw, outcomes, t)

\* AnnotatorProcessor._process_sampling_mode
process_sampling_mode(fs, cfg, img, raw, outcomes, t) ==
    LET results == cached_samples(fs, sample_paths(cfg, img), 1)
    IN  IF Len(results) = cfg.num_samples
        THEN Done(fs, Ret(TRUE, results), FALSE, {}, FALSE)
        ELSE annotate_and_save_samples(fs, cfg, img, raw, outcomes, t)

\* AnnotatorProcessor.process_single_image
process_single_image(fs, cfg, img, raw, outcomes, t) ==
    IF cfg.num_samples > 1
    THEN process_sampling_mode(fs, cfg, img, raw, outcomes, t)
    ELSE process_single_mode(fs, cfg, img, raw, outcomes[1], t)

\* what process_single_image does once annotate() has returned
annotate_and_save(fs, cfg, img, raw, outcomes, t) ==
    IF cfg.num_samples > 1
    THEN annotate_and_save_samples(fs, cfg, img, raw, outcomes, t)
    ELSE annotate_and_save_single(fs, cfg, img, raw, outcomes[1], t)


-----------------------------------------------------------------------------
(* WeightedVoter.  A weight of 1 is the weight 1.0; confidences and scores   *)
(* are in hundredths.                                                        *)

default_weight == 1

\* ConfigManager.get_annotator_weights: f"{ann.name}/{ann.model}" -> ann.weight
get_annotator_weights(batch) ==
    LET key(a) == Configs[a].name \o "/" \o Configs[a].model
    IN  [id \in {key(batch[k]) : k \in DOMAIN batch} |->
            Configs[batch[CHOOSE k \in DOMAIN batch :
                              /\ key(batch[k]) = id
                              /\ \A j \in DOMAIN batch : key(batch[j]) = id => j <= k]].weight]

\* as get_weight, for a voter that takes every annotator at the default weight
get_weight_flat(weights, annotator_id) == default_weight

\* WeightedVoter.get_weight
get_weight(weights, annotator_id) ==
    IF annotator_id \in DOMAIN weights THEN weights[annotator_id] ELSE default_weight

\* value_votes[value] += score, a new value going last
add_value(votes, value, score) ==
    IF \E k \in DOMAIN votes : votes[k].value = value
    THEN [k \in DOMAIN votes |->
             IF votes[k].value = value
             THEN [votes[k] EXCEPT !.score = @ + score] ELSE votes[k]]
    ELSE Append(votes, [value |-> value, score |-> score])

\* as add_vote, a new field name going first
add_vote_first(voted, name, value, score) ==
    IF \E k \in DOMAIN voted : voted[k].field_name = name
    THEN [k \in DOMAIN voted |->
             IF voted[k].field_name = name
             THEN [voted[k] EXCEPT !.votes = add_value(@, value, score)] ELSE voted[k]]
    ELSE <<[field_name |-> name, votes |-> <<[value |-> value, score |-> score]>>]>> \o voted

\* voted_fields[field_name][value] += score, a new field name going last
add_vote(voted, name, value, score) ==
    IF \E k \in DOMAIN voted : voted[k].field_name = name
    THEN [k \in DOMAIN voted |->
             IF voted[k].field_name = name
             THEN [voted[k] EXCEPT !.votes = add_value(@, value, score)] ELSE voted[k]]
    ELSE Append(voted, [field_name |-> name, votes |-> <<[value |-> value, score |-> score]>>])

\* the loop over the fields of one annotation (lines 84-94), from field k on;
\* a confidence of -1 is a field without the key "confidence"
RECURSIVE vote_fields(_, _, _, _)
vote_fields(voted, flds, weight, k) ==
    IF k > Len(flds) THEN voted
    ELSE IF flds[k].field_name = "" \/ flds[k].value = ""
    THEN vote_fields(voted, flds, weight, k + 1)
    ELSE vote_fields(add_vote(voted, flds[k].field_name, flds[k].value,
                              weight * (IF flds[k].confidence = -1 THEN 100
                                        ELSE flds[k].confidence)),
                     flds, weight, k + 1)

\* the loop over the annotations (lines 76-94), from annotation k on
RECURSIVE vote_annotations(_, _, _, _, _)
vote_annotations(voted, annotations, annotator_ids, weights, k) ==
    IF k > Len(annotations) THEN voted
    ELSE vote_annotations(
             vote_fields(voted,
                         IF annotations[k].result.hasFields
                         THEN annotations[k].result.flds ELSE <<>>,
                         get_weight(weights, annotator_ids[k]), 1),
             annotations, annotator_ids, weights, k + 1)

\* max(value_votes.items(), key=score): the first of the highest scores
best_vote(votes) ==
    votes[CHOOSE k \in DOMAIN votes :
              /\ \A j \in DOMAIN votes : votes[j].score <= votes[k].score
              /\ \A j \in 1..(k - 1) : votes[j].score < votes[k].score]

RECURSIVE total_weight(_, _)
total_weight(votes, k) ==
    IF k > Len(votes) THEN 0 ELSE votes[k].score + total_weight(votes, k + 1)

\* WeightedVoter.vote.  annotation.get("result", {}).get("fields", []) raises
\* AttributeError when "result" is a string or a list.
vote(annotations, annotator_ids, weights) ==
    IF Len(annotations) = 0
          \/ \E k \in DOMAIN annotations : annotations[k].result.kind \in {"str", "list"}
    THEN [raised |-> TRUE, result |-> NullJ]
    ELSE LET voted == vote_annotations(<<>>, annotations, annotator_ids, weights, 1)
         IN  [raised |-> FALSE,
              result |-> Obj(TRUE,
                             [k \in DOMAIN voted |->
                                 LET best == best_vote(voted[k].votes)
                                     total == total_weight(voted[k].votes, 1)
                                 IN  Field(voted[k].field_name, best.value,
                                           IF total > 0 THEN (best.score * 100) \div total
                                           ELSE 0)],
                             0)]

\* as majority_vote, for a voter that counts each occurrence at the confidence
\* of the field
majority_vote_confident(annotations, annotator_ids) ==
    vote(annotations, annotator_ids, <<>>)

\* the loop of MajorityVoter over the fields of one annotation, from field k
\* on: each occurrence of a value counts one
RECURSIVE tally_fields(_, _, _)
tally_fields(voted, flds, k) ==
    IF k > Len(flds) THEN voted
    ELSE tally_fields(add_vote(voted, flds[k].field_name, flds[k].value, 1), flds, k + 1)

RECURSIVE tally_annotations(_, _, _)
tally_annotations(voted, annotations, k) ==
    IF k > Len(annotations) THEN voted
    ELSE tally_annotations(
             tally_fields(voted,
                          IF annotations[k].result.hasFields
                          THEN annotations[k].result.flds ELSE <<>>, 1),
             annotations, k + 1)

\* MajorityVoter.vote: for each field name in the order of first appearance,
\* the value of the highest count, the first of them on a tie
majority_vote(annotations, annotator_ids) ==
    LET voted == tally_annotations(<<>>, annotations, 1)
    IN  [raised |-> FALSE,
         result |-> Obj(TRUE,
                        [k \in DOMAIN voted |->
                            Field(voted[k].field_name, best_vote(voted[k].votes).value, -1)],
                        0)]

\* as field_get, for field.setdefault("confidence", 1.0)
field_setdefault(field) ==
    IF field.confidence = -1 THEN [field EXCEPT !.confidence = 100] ELSE field

\* the field dict after field.get("field_name"), field.get("value") and
\* field.get("confidence", 1.0) (lines 85-87)
field_get(field) == field

\* self.weights after self.weights.get(annotator_id, self.default_weight)
weights_get(weights, annotator_id) == weights

\* self.weights after the calls of get_weight for the annotators from k on
RECURSIVE weights_after(_, _, _)
weights_after(weights, annotator_ids, k) ==
    IF k > Len(annotator_ids) THEN weights
    ELSE weights_after(weights_get(weights, annotator_ids[k]), annotator_ids, k + 1)

\* the arguments of WeightedVoter.vote and the weights of the voter as the
\* call leaves them: what the loops of lines 76-94 do to them
vote_inputs(annotations, annotator_ids, weights) ==
    [annotations |->
         [k \in DOMAIN annotations |->
             [annotations[k] EXCEPT !.result.flds =
                 [j \in DOMAIN annotations[k].result.flds |->
                     IF annotations[k].result.hasFields
                     THEN field_get(annotations[k].result.flds[j])
                     ELSE annotations[k].result.flds[j]]]],
     annotator_ids |-> annotator_ids,
     weights |-> IF Len(annotations) = 0 THEN weights
                 ELSE weights_after(weights, annotator_ids, 1)]

-----------------------------------------------------------------------------
(* VotingManager and the voting loop of run_batch_annotation.  The writes of *)
(* the voting phase are taken to succeed.                                    *)

\* what json.dump makes of the value of annotate()
raw_file(raw) ==
    File("full",
         IF raw.hasResult /\ raw.shape = "list"
         THEN Lst(Len(raw.texts), IF Len(raw.texts) > 0 THEN raw.texts[1].id ELSE "")
         ELSE IF raw.hasResult THEN Str(raw.texts[1].id)
         ELSE NullJ,
         {}, 0, -1, <<>>)

\* results[result_key] = value on an insertion-ordered dict
put(acc, key, value) ==
    IF \E k \in DOMAIN acc.ids : acc.ids[k] = key
    THEN [acc EXCEPT !.annotations =
             [k \in DOMAIN acc.ids |-> IF acc.ids[k] = key THEN value ELSE @[k]]]
    ELSE [acc EXCEPT !.ids = Append(@, key), !.annotations = Append(@, value)]

\* VotingManager.annotate_with_all, from annotator k of the batch on.  raws
\* gives what annotate() would return for each annotator.
RECURSIVE annotate_with_all(_, _, _, _, _)
annotate_with_all(acc, batch, img, raws, k) ==
    IF k > Len(batch) THEN acc
    ELSE LET cfg == Configs[batch[k]]
             result_path == voter_path(cfg, img)
             there == acc.files[result_path]
         IN  annotate_with_all(
                 IF there.st # "absent"
                 THEN (IF Loads(there) THEN put(acc, voter_id(cfg), there)
                       ELSE acc)                           \* json.load raises, caught
                 ELSE IF raws[batch[k]].kind = "raise"
                 THEN [acc EXCEPT !.invoked = @ + 1]       \* annotate raises, caught
                 ELSE [put(acc, voter_id(cfg), raw_file(raws[batch[k]])) EXCEPT
                          !.files = [@ EXCEPT ![result_path] = raw_file(raws[batch[k]])],
                          !.invoked = @ + 1],
                 batch, img, raws, k + 1)

Voted(fs, raised, ret, invoked) ==
    [files |-> fs, raised |-> raised, ret |-> ret, invoked |-> invoked]

\* as get_voted_result, without the check of the voted-result file
get_voted_result_afresh(fs, batch, img, raws, weights) ==
    LET results == annotate_with_all(
                       [files |-> fs, ids |-> <<>>, annotations |-> <<>>, invoked |-> 0],
                       batch, img, raws, 1)
        voted == vote(results.annotations, results.ids, weights)
        voted_result == File("full", voted.result, {"annotators"}, 0, -1, results.ids)
    IN  IF Len(results.ids) = 0 \/ voted.raised
        THEN Voted(results.files, TRUE, Absent, results.invoked)
        ELSE Voted([results.files EXCEPT ![voted_path(img)] = voted_result],
                   FALSE, voted_result, results.invoked)

\* VotingManager.get_voted_result
get_voted_result(fs, batch, img, raws, weights) ==
    IF fs[voted_path(img)].st # "absent"
    THEN Voted(fs, ~Loads(fs[voted_path(img)]), fs[voted_path(img)], 0)
    ELSE LET results == annotate_with_all(
                            [files |-> fs, ids |-> <<>>, annotations |-> <<>>, invoked |-> 0],
                            batch, img, raws, 1)
             voted == vote(results.annotations, results.ids, weights)
             voted_result == File("full", voted.result, {"annotators"}, 0, -1, results.ids)
         IN  IF Len(results.ids) = 0 \/ voted.raised
             THEN Voted(results.files, TRUE, Absent, results.invoked)
             ELSE Voted([results.files EXCEPT ![voted_path(img)] = voted_result],
                        FALSE, voted_result, results.invoked)

\* as collect_annotations, without the try block: the first entry that does
\* not load ends the call with its exception and nothing is returned
RECURSIVE collect_annotations_strict(_, _, _, _)
collect_annotations_strict(acc, batch, img, k) ==
    IF k > Len(batch) THEN acc
    ELSE IF acc.files[voter_path(Configs[batch[k]], img)].st = "partial"
    THEN [acc EXCEPT !.ids = <<>>, !.annotations = <<>>]
    ELSE collect_annotations_strict(
             IF Loads(acc.files[voter_path(Configs[batch[k]], img)])
             THEN put(acc, voter_id(Configs[batch[k]]),
                      acc.files[voter_path(Configs[batch[k]], img)])
             ELSE acc,
             batch, img, k + 1)

\* VotingManager.collect_annotations, from annotator k of the batch on: the
\* result files of the image that exist and load
RECURSIVE collect_annotations(_, _, _, _)
collect_annotations(acc, batch, img, k) ==
    IF k > Len(batch) THEN acc
    ELSE collect_annotations(
             IF Loads(acc.files[voter_path(Configs[batch[k]], img)])
             THEN put(acc, voter_id(Configs[batch[k]]),
                      acc.files[voter_path(Configs[batch[k]], img)])
             ELSE acc,
             batch, img, k + 1)

\* as vote_image, leaving a voted result that was loaded from its file alone
vote_image_keeping(fs, batch, img, raws, weights, t) ==
    LET got == get_voted_result(fs, batch, img, raws, weights)
    IN  IF got.raised \/ fs[voted_path(img)].st # "absent" THEN got
        ELSE [got EXCEPT !.files =
                 [@ EXCEPT ![voted_path(img)] =
                     File("full", got.ret.result, {"task_id", "image_path", "timestamp"},
                          t, -1, <<>>)]]

\* one round of the voting loop of run_batch_annotation (lines 131-153): the
\* voted result gets the metadata of the task and is saved as JSON; an
\* exception is logged and the loop goes on
vote_image(fs, batch, img, raws, weights, t) ==
    LET got == get_voted_result(fs, batch, img, raws, weights)
    IN  IF got.raised THEN got
        ELSE [got EXCEPT !.files =
                 [@ EXCEPT ![voted_path(img)] =
                     File("full", got.ret.result, {"task_id", "image_path", "timestamp"},
                          t, -1, <<>>)]]


\* vote_image with the outcome of save_as_json (formatter.py 46-49): when
\* open() fails the round raises and the file is left as get_voted_result
\* left it
vote_image_saving(fs, batch, img, raws, weights, t, outcome) ==
    IF outcome = "ok" THEN vote_image(fs, batch, img, raws, weights, t)
    ELSE [get_voted_result(fs, batch, img, raws, weights) EXCEPT !.raised = TRUE]

\* as resolve_voter, falling back to the weighted voter
resolve_voter_fallback(m) ==
    CASE m = "simple_vote" -> "MajorityVoter"
      [] m = "weighted_vote" -> "WeightedVoter"
      [] m = "highest_confidence" -> "WeightedVoter"
      [] OTHER -> "ValueError"

\* the choice of the voter in run_batch_annotation (lines 98-114): the voter
\* class, or the exception raised
resolve_voter(m) ==
    CASE m = "simple_vote" -> "MajorityVoter"
      [] m = "weighted_vote" -> "WeightedVoter"
      [] m = "highest_confidence" -> "NotImplementedError"
      [] OTHER -> "ValueError"

\* as loop_goes_on, for a loop without the except clause
loop_stops_on_error(raised) == ~raised

\* the except clause of the voting loop (lines 151-153): the next round is
\* made whether or not this one raised
loop_goes_on(raised) == TRUE

-----------------------------------------------------------------------------
(* The processors driven one call at a time *)

\* the variables of the specifications of single functions
pureVars == <<layout, writing, ballots, verdict, wrapper>>
procVars == <<ncalls, ndeletes, proc, last, failed, pureVars>>
runConfig == <<annotator_configs, max_workers, method>>
batchVars == <<runConfig, run, phase, si, nspawn, unit, task, vi, voteLog, voter, remote,
               fullAtStart, votedBefore>>
vars == <<files, now, procVars, batchVars>>

Task(st, ok, late, raised) == [st |-> st, ok |-> ok, late |-> late, raised |-> raised]
NoTask == Task("none", FALSE, FALSE, FALSE)
Queued == Task("queued", FALSE, FALSE, FALSE)

\* a round of the voting loop: whether it was made, how many voters had a
\* result file for the image and how many cache slots of the image loaded
\* before it, how many annotators it invoked, whether it raised, whether
\* the voted-result file was written in it and the voter ids that
\* get_voted_result handed to the voter
Round(made, collected, slots, invoked, raised, wrote, ids) ==
    [made |-> made, collected |-> collected, slots |-> slots, invoked |-> invoked,
     raised |-> raised, wrote |-> wrote, ids |-> ids]
NoRound == Round(FALSE, 0, 0, 0, FALSE, FALSE, <<>>)
NoRounds == [k \in DOMAIN image_files |-> NoRound]

NoLayout == [cfgs |-> <<>>, imgs |-> <<>>]
\* the arguments of a vote
Inputs(annotations, annotator_ids, weights) ==
    [annotations |-> annotations, annotator_ids |-> annotator_ids, weights |-> weights]
\* no vote was taken; inputs is what vote left of its arguments
NoVerdict ==
    [voter |-> "none", raised |-> FALSE, result |-> NullJ, inputs |-> Inputs(<<>>, <<>>, <<>>)]
\* no call through retry_with_backoff is under way
NoWrapper ==
    [max_retries |-> 0, retry |-> 0, delay |-> 0, slept |-> 0, last_exception |-> <<>>,
     calls |-> <<>>, st |-> "none",
     result |-> [kind |-> "none", hasmsg |-> FALSE, message |-> <<>>]]
\* no single function is being looked at
NoPure ==
    /\ layout = NoLayout
    /\ writing = {}
    /\ ballots = <<>>
    /\ verdict = NoVerdict
    /\ wrapper = NoWrapper

\* no batch is running
NoBatch ==
    /\ annotator_configs = <<>>
    /\ max_workers = 1
    /\ method = "weighted_vote"
    /\ voteLog = NoRounds
    /\ voter = "none"
    /\ run = "none"
    /\ phase = "idle"
    /\ si = 0
    /\ nspawn = [a \in Annotators |-> 0]
    /\ unit = [a \in Annotators |-> "none"]
    /\ task = [a \in Annotators |-> [k \in DOMAIN image_files |-> NoTask]]
    /\ vi = 0
    /\ remote = 0
    /\ fullAtStart = FALSE
    /\ votedBefore = [k \in DOMAIN image_files |-> Absent]

\* The record of a call: the annotator and image, the contents of the image's
\* own cache paths before and after the call (pre, post), whether annotate()
\* was invoked and whether it failed, the value returned, the paths opened for
\* writing, whether the process was killed in the call, whether every other
\* path was left as it was (frame), whether the previous call for the image
\* had a failed annotate() (again), and the completions that annotate() gave
\* to a call in sampling mode (texts).
Call(a, img, pre, post, invoked, afail, ret, written, killed, frame, again, texts) ==
    [a |-> a, img |-> img, pre |-> pre, post |-> post, invoked |-> invoked,
     afail |-> afail, ret |-> ret, written |-> written, killed |-> killed,
     frame |-> frame, again |-> again, texts |-> texts]
NoCall ==
    Call("", Image("", ""), <<>>, <<>>, FALSE, FALSE, None, {}, FALSE, TRUE, FALSE, <<>>)

\* the output tree before the first run
EmptyTree == [p \in Paths |-> Absent]

\* the output tree left by an earlier run in which every annotator answered
\* every image with the completion TFenced at time 0 and every save succeeded
RECURSIVE AfterRun(_, _)
AfterRun(fs, todo) ==
    IF todo = {} THEN fs
    ELSE LET x == CHOOSE y \in todo : TRUE
             cfg == Configs[x[1]]
             raw == IF cfg.type = "openai"
                    THEN RawList([k \in 1..cfg.num_samples |-> TFenced])
                    ELSE RawStr(TFenced)
         IN  AfterRun(process_single_image(fs, cfg, x[2], raw,
                                           [k \in 1..cfg.num_samples |-> "ok"], 0).files,
                      todo \ {x})

FullTree == AfterRun(EmptyTree, Annotators \X Images)

\* the tree left by a run in which the processor of the annotator that is
\* named as its class stored nothing, annotate() failed again in the voting
\* round, and annotate_with_all dumped the error value of the retry wrapper
\* at <ClassName>/<model>/<stem>.json, which is that annotator's cache path;
\* the other annotators' entries are those of FullTree
HollowTree ==
    [p \in Paths |->
        IF p \in {voter_path(Configs["A1"], i) : i \in Images} \cap OwnPaths("A1")
        THEN raw_file(RawError)
        ELSE FullTree[p]]

Init ==
    /\ \/ files \in {EmptyTree, FullTree} /\ proc \in Annotators
       \/ files = HollowTree /\ proc = "A1"
    /\ now = 0
    /\ ncalls = 0
    /\ ndeletes = 0
    /\ last = NoCall
    /\ failed = {}
    /\ NoBatch
    /\ NoPure

\* one call of process_single_image(img) on the processor, at a time t: the
\* second of the last reading of the clock or the next one
ProcessImage(img) ==
    /\ ncalls < MaxCalls
    /\ \E raw \in AnnotateOutcomes(Configs[proc]),
          outcomes \in SaveRuns(Configs[proc].num_samples),
          t \in {u \in {now, now + 1} : u <= MaxClock} :
          \E d \in {process_single_image(files, Configs[proc], img, raw, outcomes, t)} :
          LET afail == d.invoked /\ AnnotateFailed(raw)
              own == SamplePaths[proc][img]
          IN  /\ files' = d.files
              /\ now' = t
              /\ last' = Call(proc, img, [k \in DOMAIN own |-> files[own[k]]],
                              [k \in DOMAIN own |-> d.files[own[k]]],
                              d.invoked, afail, d.ret, d.written, d.killed,
                              \A p \in Paths \ {own[k] : k \in DOMAIN own} :
                                  d.files[p] = files[p],
                              <<proc, img>> \in failed,
                              IF d.invoked /\ Configs[proc].num_samples > 1 /\ raw.hasResult
                              THEN raw.texts ELSE <<>>)
              /\ failed' = IF afail THEN failed \cup {<<proc, img>>}
                           ELSE failed \ {<<proc, img>>}
    /\ ncalls' = ncalls + 1
    /\ UNCHANGED <<ndeletes, proc, batchVars, pureVars>>

\* external cleanup removes one cache file of the processor's directory
Delete(p) ==
    /\ ndeletes < MaxDeletes
    /\ p \in OwnPaths(proc)
    /\ files[p] # Absent
    /\ files' = [files EXCEPT ![p] = Absent]
    /\ ndeletes' = ndeletes + 1
    /\ UNCHANGED <<now, ncalls, proc, last, failed, batchVars, pureVars>>

Next ==
    \/ \E img \in Images : ProcessImage(img)
    \/ \E p \in Paths : Delete(p)

Spec == Init /\ [][Next]_vars


-----------------------------------------------------------------------------
(* ParallelProcessor.run_parallel: one process per annotator config, each    *)
(* running process_images on a thread pool                                   *)

Terminated == {"done", "failed", "raised", "crashed"}

\* as all_terminated, for a join that returns with the first process
any_terminated(cfgs, u) == \E k \in DOMAIN cfgs : u[cfgs[k]] \in Terminated

\* the loop of p.join() (lines 98-99) is over: every process has terminated
all_terminated(cfgs, u) == \A k \in DOMAIN cfgs : u[cfgs[k]] \in Terminated

\* what annotate() gives in a pool task
PoolOutcomes(cfg) ==
    IF cfg.type = "openai"
    THEN {RawError, RawList(<<>>), RawList([k \in 1..cfg.num_samples |-> TBare]),
          RawList([k \in 1..cfg.num_samples |-> IF k = 1 THEN TBare ELSE TProse])}
    ELSE {RawRaise, RawStr(TFenced), RawStr(TEmpty)}

\* how the saves of a pool task go
PoolSaves(cfg) ==
    {[k \in 1..cfg.num_samples |-> "ok"],
     [k \in 1..cfg.num_samples |-> IF k = 1 THEN "open_fails" ELSE "ok"]}

Active(a) == {k \in DOMAIN image_files : task[a][k].st = "active"}

\* as pool_has_room, for a pool that starts a thread for every task
pool_unbounded(active, workers) == TRUE

\* ThreadPoolExecutor(max_workers=self.max_workers) (line 134): a task is
\* taken only by one of at most max_workers threads
pool_has_room(active, workers) == Cardinality(active) < workers

InitPool ==
    /\ files \in {EmptyTree, FullTree}
    /\ now = 0
    /\ ncalls = 0 /\ ndeletes = 0 /\ proc = "A1" /\ last = NoCall /\ failed = {}
    /\ NoPure
    /\ annotator_configs = <<"A2", "A3">>
    /\ max_workers \in 1..MaxWorkers
    /\ method = "weighted_vote"
    /\ voteLog = NoRounds
    /\ voter = "none"
    /\ run = "first"
    /\ phase = "spawn"
    /\ si = 0
    /\ nspawn = [a \in Annotators |-> 0]
    /\ unit = [a \in Annotators |-> "none"]
    /\ task = [a \in Annotators |-> [k \in DOMAIN image_files |-> NoTask]]
    /\ vi = 0
    /\ remote = 0
    /\ fullAtStart = FALSE
    /\ votedBefore = [k \in DOMAIN image_files |-> Absent]

\* one round of the spawning loop (lines 89-95): p.start() for the next config
Spawn ==
    /\ phase = "spawn"
    /\ si < Len(annotator_configs)
    /\ LET a == annotator_configs[si + 1]
       IN  /\ unit' = [unit EXCEPT ![a] = "started"]
           /\ nspawn' = [nspawn EXCEPT ![a] = @ + 1]
    /\ si' = si + 1
    /\ phase' = IF si + 1 = Len(annotator_configs) THEN "join" ELSE "spawn"
    /\ UNCHANGED <<files, now, procVars, runConfig, run, task, vi, voteLog, voter, remote,
                   fullAtStart, votedBefore>>

\* run_annotator_process up to executor.submit (lines 73-79, 134-138): the
\* annotator and the processor are built, which may raise, and one task per
\* image is handed to the pool
UnitInit(a) ==
    /\ unit[a] = "started"
    /\ \E built \in BOOLEAN :
          /\ unit' = [unit EXCEPT ![a] = IF built THEN "running" ELSE "failed"]
          /\ task' = [task EXCEPT ![a] =
                         IF built THEN [k \in DOMAIN image_files |-> Queued] ELSE @]
    /\ UNCHANGED <<files, now, procVars, runConfig, run, phase, si, nspawn, vi, voteLog, voter,
                   remote, fullAtStart, votedBefore>>

\* a pool thread takes the task of image k and runs process_single_image up to
\* the invocation of annotate(): on a cache hit the task is over
TaskStart(a, k) ==
    /\ unit[a] = "running"
    /\ task[a][k].st = "queued"
    /\ pool_has_room(Active(a), max_workers)
    /\ \E d \in {process_single_image(files, Configs[a], image_files[k], RawRaise,
                                      [j \in 1..Configs[a].num_samples |-> "ok"], now)} :
          LET late == \E j \in DOMAIN image_files :
                          task[a][j].st = "done" /\ ~task[a][j].ok
          IN  /\ task' = [task EXCEPT ![a][k] =
                             IF d.invoked THEN Task("active", FALSE, late, FALSE)
                             ELSE Task("done", d.ret.some, late, d.raised)]
              /\ remote' = IF d.invoked THEN remote + 1 ELSE remote
    /\ UNCHANGED <<files, now, procVars, runConfig, run, phase, si, nspawn, unit,
                   vi, voteLog, voter, fullAtStart, votedBefore>>

\* annotate() returns or raises in the task of image k, and the task parses,
\* validates and saves
TaskFinish(a, k) ==
    /\ unit[a] = "running"
    /\ task[a][k].st = "active"
    /\ \E raw \in PoolOutcomes(Configs[a]), outcomes \in PoolSaves(Configs[a]) :
          \E d \in {annotate_and_save(files, Configs[a], image_files[k], raw, outcomes, now)} :
              /\ files' = d.files
              /\ task' = [task EXCEPT ![a][k] =
                             Task("done", d.ret.some, task[a][k].late, d.raised)]
    /\ UNCHANGED <<now, procVars, runConfig, run, phase, si, nspawn, unit, vi, voteLog, voter,
                   remote, fullAtStart, votedBefore>>

\* as tasks_over, for an executor that is left with its first finished task
first_task_over(tasks) == \E k \in DOMAIN tasks : tasks[k].st = "done"

\* the end of the with block of process_images (lines 134-145): shutdown
\* waits until every submitted task is over
tasks_over(tasks) == \A k \in DOMAIN tasks : tasks[k].st = "done"

\* process_images leaves the with block once every task is over (lines 139-145):
\* future.result() raises what a task raised, and the process ends
UnitFinish(a) ==
    /\ unit[a] = "running"
    /\ tasks_over(task[a])
    /\ unit' = [unit EXCEPT ![a] =
                   IF \E k \in DOMAIN image_files : task[a][k].raised
                   THEN "raised" ELSE "done"]
    /\ UNCHANGED <<files, now, procVars, runConfig, run, phase, si, nspawn, task,
                   vi, voteLog, voter, remote, fullAtStart, votedBefore>>

\* the process of an annotator is killed from outside
UnitCrash(a) ==
    /\ unit[a] \in {"started", "running"}
    /\ unit' = [unit EXCEPT ![a] = "crashed"]
    /\ UNCHANGED <<files, now, procVars, runConfig, run, phase, si, nspawn, task,
                   vi, voteLog, voter, remote, fullAtStart, votedBefore>>

\* run_parallel returns
Join ==
    /\ phase = "join"
    /\ all_terminated(annotator_configs, unit)
    /\ phase' = "resolve"
    /\ UNCHANGED <<files, now, procVars, runConfig, run, si, nspawn, unit, task,
                   vi, voteLog, voter, remote, fullAtStart, votedBefore>>

UnitStep(a) ==
    \/ UnitInit(a)
    \/ \E k \in DOMAIN image_files : TaskStart(a, k)
    \/ \E k \in DOMAIN image_files : TaskFinish(a, k)
    \/ UnitFinish(a)

NextPool ==
    \/ Spawn
    \/ \E a \in Annotators : UnitInit(a)
    \/ \E a \in Annotators, k \in DOMAIN image_files : TaskStart(a, k)
    \/ \E a \in Annotators, k \in DOMAIN image_files : TaskFinish(a, k)
    \/ \E a \in Annotators : UnitFinish(a)
    \/ \E a \in Annotators : UnitCrash(a)
    \/ Join

SpecPool == InitPool /\ [][NextPool]_vars

\* the pool threads of a running process keep taking tasks, every annotate()
\* call that was started returns or raises, and a process whose tasks are
\* over leaves process_images
PoolFairness ==
    \A a \in Annotators :
        /\ WF_vars(\E k \in DOMAIN image_files : TaskStart(a, k))
        /\ WF_vars(\E k \in DOMAIN image_files : TaskFinish(a, k))
        /\ WF_vars(UnitFinish(a))

SpecPoolFair == SpecPool /\ PoolFairness


-----------------------------------------------------------------------------
(* run_batch_annotation, run twice over the same input and output            *)
(* directories with weighted voting enabled.  Here the process of an         *)
(* annotator is one step: its tasks write disjoint paths, so that they leave *)
(* what they would leave when run one after the other.                       *)

\* the annotator configs of the task
Batches == {<<"A1", "A3">>, <<"A2", "A3">>}

\* what annotate() gives in a batch run
BatchOutcomes(cfg) ==
    IF cfg.type = "openai"
    THEN {RawError, RawList([k \in 1..cfg.num_samples |-> TBare])}
    ELSE {RawRaise, RawStr(TFenced)}

\* a cache slot holds a result that a later run takes for a hit
ValidSlot(c) == Loads(c) /\ Truthy(c.result)

\* AnnotatorProcessor.process_images, from image k on: acc holds the files,
\* the number of annotate() invocations and whether a task raised
RECURSIVE process_images(_, _, _, _, _)
process_images(acc, cfg, raws, t, k) ==
    IF k > Len(image_files) THEN acc
    ELSE LET d == process_single_image(acc.files, cfg, image_files[k], raws[k],
                                       [j \in 1..cfg.num_samples |-> "ok"], t)
         IN  process_images([files |-> d.files,
                             invoked |-> acc.invoked + (IF d.invoked THEN 1 ELSE 0),
                             raised |-> acc.raised \/ d.raised],
                            cfg, raws, t, k + 1)

InitBatch ==
    /\ files = EmptyTree
    /\ now = 0
    /\ ncalls = 0 /\ ndeletes = 0 /\ proc = "A1" /\ last = NoCall /\ failed = {}
    /\ NoPure
    /\ annotator_configs \in Batches
    /\ max_workers = 1
    /\ method = "weighted_vote"
    /\ voteLog = NoRounds
    /\ voter = "none"
    /\ run = "none"
    /\ phase = "idle"
    /\ si = 0
    /\ nspawn = [a \in Annotators |-> 0]
    /\ unit = [a \in Annotators |-> "none"]
    /\ task = [a \in Annotators |-> [k \in DOMAIN image_files |-> NoTask]]
    /\ vi = 0
    /\ remote = 0
    /\ fullAtStart = FALSE
    /\ votedBefore = [k \in DOMAIN image_files |-> Absent]

\* run_batch_annotation is called, at a time that is not before the last
\* reading of the clock, and goes on to the end of the spawning loop
StartRun ==
    /\ phase \in {"idle", "finished"}
    /\ run # "second"
    /\ run' = IF run = "none" THEN "first" ELSE "second"
    /\ \E t \in now..MaxClock : now' = t
    /\ phase' = "join"
    /\ si' = Len(annotator_configs)
    /\ nspawn' = [a \in Annotators |->
                     Cardinality({k \in DOMAIN annotator_configs : annotator_configs[k] = a})]
    /\ unit' = [a \in Annotators |->
                   IF \E k \in DOMAIN annotator_configs : annotator_configs[k] = a
                   THEN "started" ELSE "none"]
    /\ task' = [a \in Annotators |-> [k \in DOMAIN image_files |-> NoTask]]
    /\ vi' = 0
    /\ voteLog' = NoRounds
    /\ voter' = "none"
    /\ remote' = 0
    /\ fullAtStart' =
           \A j \in DOMAIN annotator_configs, i \in DOMAIN image_files :
               \A k \in DOMAIN SamplePaths[annotator_configs[j]][image_files[i]] :
                   ValidSlot(files[SamplePaths[annotator_configs[j]][image_files[i]][k]])
    /\ votedBefore' = [k \in DOMAIN image_files |-> files[voted_path(image_files[k])]]
    /\ UNCHANGED <<files, procVars, runConfig>>

\* run_annotator_process of one annotator, from start to end
RunUnit(a) ==
    /\ phase = "join"
    /\ unit[a] = "started"
    /\ \E built \in BOOLEAN, raws \in [DOMAIN image_files -> BatchOutcomes(Configs[a])] :
          \E r \in {process_images([files |-> files, invoked |-> 0, raised |-> FALSE],
                                   Configs[a], raws, now, 1)} :
             IF built
             THEN /\ files' = r.files
                  /\ remote' = remote + r.invoked
                  /\ unit' = [unit EXCEPT ![a] = IF r.raised THEN "raised" ELSE "done"]
                  /\ task' = [task EXCEPT ![a] =
                                 [k \in DOMAIN image_files |->
                                     Task("done", FALSE, FALSE, FALSE)]]
             ELSE /\ unit' = [unit EXCEPT ![a] = "failed"]
                  /\ UNCHANGED <<files, remote, task>>
    /\ UNCHANGED <<now, procVars, runConfig, run, phase, si, nspawn, vi, voteLog, voter,
                   fullAtStart, votedBefore>>

\* the voter is chosen after run_parallel has returned; an exception ends
\* run_batch_annotation (lines 185-187)
Resolve ==
    /\ phase = "resolve"
    /\ \E r \in {resolve_voter(method)} :
          IF r \in {"WeightedVoter", "MajorityVoter"}
          THEN /\ voter' = r
               /\ phase' = "vote"
          ELSE /\ phase' = r
               /\ UNCHANGED voter
    /\ vi' = 0
    /\ voteLog' = NoRounds
    /\ UNCHANGED <<files, now, procVars, runConfig, run, si, nspawn, unit, task,
                   remote, fullAtStart, votedBefore>>

\* the number of loadable cache slots of an image over the annotators
slots_loaded(fs, batch, img) ==
    Cardinality({<<j, k>> \in (DOMAIN batch) \X (1..2) :
                    /\ k \in DOMAIN SamplePaths[batch[j]][img]
                    /\ Loads(fs[SamplePaths[batch[j]][img][k]])})

\* one round of the voting loop, save_as_json going one of the ways in saves
VoteRound(saves) ==
    /\ phase = "vote"
    /\ vi < Len(image_files)
    /\ \E raws \in [{annotator_configs[k] : k \in DOMAIN annotator_configs} ->
                        UNION {BatchOutcomes(Configs[a]) : a \in Annotators}],
          outcome \in saves :
          /\ \A k \in DOMAIN annotator_configs :
                 raws[annotator_configs[k]] \in BatchOutcomes(Configs[annotator_configs[k]])
          /\ \E v \in {vote_image_saving(files, annotator_configs, image_files[vi + 1], raws,
                                         get_annotator_weights(annotator_configs), now,
                                         outcome)} :
                LET img == image_files[vi + 1]
                    before == collect_annotations(
                                  [files |-> files, ids |-> <<>>, annotations |-> <<>>,
                                   invoked |-> 0],
                                  annotator_configs, img, 1)
                IN  /\ files' = v.files
                    /\ remote' = remote + v.invoked
                    /\ voteLog' = [voteLog EXCEPT ![vi + 1] =
                           Round(TRUE, Len(before.ids),
                                 slots_loaded(files, annotator_configs, img),
                                 v.invoked, v.raised,
                                 /\ v.files[voted_path(img)].st = "full"
                                 /\ (~v.raised \/ files[voted_path(img)].st = "absent"),
                                 v.ret.annotators)]
                    /\ phase' = IF loop_goes_on(v.raised) THEN "vote" ELSE "Exception"
    /\ vi' = vi + 1
    /\ UNCHANGED <<now, procVars, runConfig, run, si, nspawn, unit, task, voter,
                   fullAtStart, votedBefore>>

\* one round of the voting loop in which save_as_json succeeds
VoteImage == VoteRound({"ok"})

\* what run_batch_annotation reports when the voting loop is over (line 155):
\* "Completed task ... with len(image_files) images"
run_report(imgs) == [images |-> Len(imgs)]

\* the voting loop is over and run_batch_annotation returns
FinishRun ==
    /\ phase = "vote"
    /\ vi = Len(image_files)
    /\ phase' = "finished"
    /\ UNCHANGED <<files, now, procVars, runConfig, run, si, nspawn, unit, task,
                   vi, voteLog, voter, remote, fullAtStart, votedBefore>>

NextBatch ==
    \/ StartRun
    \/ \E a \in Annotators : RunUnit(a)
    \/ Join
    \/ Resolve
    \/ VoteImage
    \/ FinishRun

SpecBatch == InitBatch /\ [][NextBatch]_vars

-----------------------------------------------------------------------------
(* One run of run_batch_annotation with the processes of run_parallel step   *)
(* by step, every ensemble method and a save_as_json that may fail           *)

\* the ensemble methods of the tasks: two names of EnsembleStrategy and one
\* that is no name of it
Methods == {"weighted_vote", "highest_confidence", "majority"}

InitRun ==
    /\ files = EmptyTree
    /\ now = 0
    /\ ncalls = 0 /\ ndeletes = 0 /\ proc = "A1" /\ last = NoCall /\ failed = {}
    /\ NoPure
    /\ annotator_configs = <<"A2", "A3">>
    /\ max_workers = MaxWorkers
    /\ method \in Methods
    /\ voteLog = NoRounds
    /\ voter = "none"
    /\ run = "first"
    /\ phase = "spawn"
    /\ si = 0
    /\ nspawn = [a \in Annotators |-> 0]
    /\ unit = [a \in Annotators |-> "none"]
    /\ task = [a \in Annotators |-> [k \in DOMAIN image_files |-> NoTask]]
    /\ vi = 0
    /\ remote = 0
    /\ fullAtStart = FALSE
    /\ votedBefore = [k \in DOMAIN image_files |-> Absent]

\* one round of the voting loop in which save_as_json succeeds or cannot open
\* the file
VoteImageSaving == VoteRound({"ok", "open_fails"})

NextRun ==
    \/ NextPool
    \/ Resolve
    \/ VoteImageSaving
    \/ FinishRun

SpecRun == InitRun /\ [][NextRun]_vars


-----------------------------------------------------------------------------
(* The directory layout of one run: which saves can be under way at once.   *)
(* Each process runs process_single_image for its images on its pool, and    *)
(* a call saves its samples one after the other.                             *)

\* annotator configs that a task may list together
LayoutConfigs ==
    {Config("gpt", "openai", "gpt-4o", 1, "", 1),
     Config("gpt", "openai", "gpt-4o", 2, "0.7", 1),
     Config("gpt", "gemini", "gpt-4o", 1, "", 1),
     Config("gem", "gemini", "gemini-pro", 1, "", 1)}

\* files that get_image_files may find in one directory
LayoutImages == {Image("inv1", ".png"), Image("inv1", ".jpg"), Image("inv2", ".jpg")}

\* the calls of process_single_image of the run: config index and image index
LayoutCalls == (1..2) \X (1..2)

\* the path that save k of call c writes
save_path(c, k) == sample_paths(layout.cfgs[c[1]], layout.imgs[c[2]])[k]

InitLayout ==
    /\ files = EmptyTree
    /\ now = 0
    /\ ncalls = 0 /\ ndeletes = 0 /\ proc = "A1" /\ last = NoCall /\ failed = {}
    /\ NoBatch
    /\ \E c1, c2 \in LayoutConfigs, i1, i2 \in LayoutImages :
          /\ c1 # c2
          /\ i1 # i2
          /\ layout = [cfgs |-> <<c1, c2>>, imgs |-> <<i1, i2>>]
    /\ writing = {}
    /\ ballots = <<>>
    /\ verdict = NoVerdict
    /\ wrapper = NoWrapper

\* _save_result of sample k of call c opens its path for writing (line 197):
\* the call is saving no other sample, and its process has a thread for it
OpenSave(c, k) ==
    /\ k \in DOMAIN sample_paths(layout.cfgs[c[1]], layout.imgs[c[2]])
    /\ \A w \in writing : <<w[1], w[2]>> # c
    /\ Cardinality({w \in writing : w[1] = c[1]}) < MaxWorkers
    /\ writing' = writing \cup {<<c[1], c[2], k>>}
    /\ UNCHANGED <<files, now, ncalls, ndeletes, proc, last, failed, batchVars, layout,
                   ballots, verdict, wrapper>>

\* json.dump is over and the file is closed (lines 198-199)
CloseSave(w) ==
    /\ w \in writing
    /\ writing' = writing \ {w}
    /\ UNCHANGED <<files, now, ncalls, ndeletes, proc, last, failed, batchVars, layout,
                   ballots, verdict, wrapper>>

NextLayout ==
    \/ \E c \in LayoutCalls, k \in 1..2 : OpenSave(c, k)
    \/ \E w \in LayoutCalls \X (1..2) : CloseSave(<<w[1][1], w[1][2], w[2]>>)

SpecLayout == InitLayout /\ [][NextLayout]_vars


-----------------------------------------------------------------------------
(* The voters on their own: one vote over the results of up to MaxBallots    *)
(* annotators, in the order in which get_voted_result hands them over        *)

\* the keys "annotator/model" of the results
VoterIds == {"v1", "v2", "v3", "v4"}

\* the weights of the task: v3 and v4 have none
VoteWeights == [id \in {"v1", "v2"} |-> IF id = "v1" THEN 1 ELSE 2]

\* what the results hold under "result"
BallotResults ==
    {Obj(TRUE, <<Field("total", "10", 60)>>, 0),
     Obj(TRUE, <<Field("total", "70", 90)>>, 0),
     Obj(TRUE, <<Field("total", "10", -1)>>, 0),
     Obj(TRUE, <<Field("total", "70", -1), Field("date", "d1", 50)>>, 0),
     Obj(TRUE, <<Field("total", "", 80), Field("date", "d2", 50)>>, 0),
     Obj(TRUE, <<Field("total", "70", 0)>>, 0),
     Obj(TRUE, <<Field("", "70", 90), Field("date", "d1", 50)>>, 0),
     Obj(FALSE, <<>>, 1)}

Ballot(id, result) == [id |-> id, result |-> result]

\* annotator_ids = list(results.keys()); annotations = list(results.values())
ballot_ids(bs) == [k \in DOMAIN bs |-> bs[k].id]
ballot_annotations(bs) == [k \in DOMAIN bs |-> [result |-> bs[k].result]]

InitVote ==
    /\ files = EmptyTree
    /\ now = 0
    /\ ncalls = 0 /\ ndeletes = 0 /\ proc = "A1" /\ last = NoCall /\ failed = {}
    /\ NoBatch
    /\ layout = NoLayout
    /\ writing = {}
    /\ \E n \in 0..MaxBallots :
          \E ids \in [1..n -> VoterIds], rs \in [1..n -> BallotResults] :
              /\ \A j, k \in 1..n : j # k => ids[j] # ids[k]
              /\ ballots = [k \in 1..n |-> Ballot(ids[k], rs[k])]
    /\ verdict = NoVerdict
    /\ wrapper = NoWrapper

\* self.voter.vote(annotations, annotator_ids) of a WeightedVoter
WeightedVote ==
    /\ \E r \in {vote(ballot_annotations(ballots), ballot_ids(ballots), VoteWeights)} :
          verdict' = [voter |-> "WeightedVoter", raised |-> r.raised, result |-> r.result,
                      inputs |-> vote_inputs(ballot_annotations(ballots),
                                             ballot_ids(ballots), VoteWeights)]
    /\ UNCHANGED <<files, now, ncalls, ndeletes, proc, last, failed, batchVars,
                   layout, writing, ballots, wrapper>>

\* self.voter.vote(annotations, annotator_ids) of a MajorityVoter, which
\* get_voted_result calls with at least one result
MajorityVote ==
    /\ Len(ballots) > 0
    /\ \E r \in {majority_vote(ballot_annotations(ballots), ballot_ids(ballots))} :
          verdict' = [voter |-> "MajorityVoter", raised |-> r.raised, result |-> r.result,
                      inputs |-> Inputs(ballot_annotations(ballots), ballot_ids(ballots),
                                        <<>>)]
    /\ UNCHANGED <<files, now, ncalls, ndeletes, proc, last, failed, batchVars,
                   layout, writing, ballots, wrapper>>

NextVote ==
    \/ WeightedVote
    \/ MajorityVote

SpecVote == InitVote /\ [][NextVote]_vars


-----------------------------------------------------------------------------
(* VotingManager.collect_annotations on its own, over result files that are  *)
(* missing, cut short or complete                                             *)

\* the annotators of the VotingManager
CollectBatches == {<<"A1", "A3">>, <<"A3", "A2">>, <<"A1", "A2", "A3">>}

\* what a result file of an annotator may hold
ResultFiles ==
    {Absent, Partial, raw_file(RawStr(TFenced)),
     Content("full", Obj(TRUE, <<F2>>, 0), 0, -1)}

InitCollect ==
    /\ \E held \in [{voter_path(Configs[a], img) : a \in Annotators, img \in Images}
                        -> ResultFiles] :
          files = [p \in Paths |-> IF p \in DOMAIN held THEN held[p] ELSE Absent]
    /\ now = 0
    /\ ncalls = 0 /\ ndeletes = 0 /\ proc = "A1" /\ last = NoCall /\ failed = {}
    /\ NoPure
    /\ annotator_configs \in CollectBatches
    /\ max_workers = 1
    /\ method = "weighted_vote"
    /\ voteLog = NoRounds
    /\ voter = "none"
    /\ run = "none"
    /\ phase = "idle"
    /\ si = 0
    /\ nspawn = [a \in Annotators |-> 0]
    /\ unit = [a \in Annotators |-> "none"]
    /\ task = [a \in Annotators |-> [k \in DOMAIN image_files |-> NoTask]]
    /\ vi = 0
    /\ remote = 0
    /\ fullAtStart = FALSE
    /\ votedBefore = [k \in DOMAIN image_files |-> Absent]

\* collect_annotations(results_dir, image_stem) for image k: the dict that it
\* returns, in the order of its keys
Collect(k) ==
    /\ \E r \in {collect_annotations([files |-> files, ids |-> <<>>, annotations |-> <<>>,
                                       invoked |-> 0],
                                      annotator_configs, image_files[k], 1)} :
          /\ ballots' = [j \in DOMAIN r.ids |-> Ballot(r.ids[j], r.annotations[j].result)]
          /\ files' = r.files
    /\ vi' = k
    /\ UNCHANGED <<now, ncalls, ndeletes, proc, last, failed, layout, writing, verdict,
                   wrapper, runConfig, run, phase, si, nspawn, unit, task, voteLog,
                   voter, remote, fullAtStart, votedBefore>>

NextCollect == \E k \in DOMAIN image_files : Collect(k)

SpecCollect == InitCollect /\ [][NextCollect]_vars

-----------------------------------------------------------------------------
(* retry_with_backoff, one attempt of the wrapper's loop at a time *)


\* the defaults of retry_with_backoff and the initial_delay that
\* OpenAIAnnotator.annotate is decorated with, in seconds
initial_delay == 2
max_delay == 10
backoff_factor == 2

\* as names_retryable_code, for a wrapper that tells no status code apart
names_no_code(error_msg) == FALSE

\* any(str(code) in error_msg for code in retryable_status_codes), over the
\* words of the message (line 57, codes of line 33)
names_retryable_code(error_msg) ==
    \E k \in DOMAIN error_msg : error_msg[k] \in {"408", "429", "500", "502", "503", "504"}

\* what one invocation of the wrapped function does: it returns a value that
\* is no error dict, raises an Exception with a message, or returns a dict
\* with status "error", with or without a message
FuncOutcomes ==
    {[kind |-> "value", hasmsg |-> FALSE, message |-> <<>>]} \cup
    {[kind |-> "raise", hasmsg |-> TRUE, message |-> m] :
        m \in {<<"timed", "out">>, <<"Error", "code", "429">>}} \cup
    {[kind |-> "error", hasmsg |-> TRUE, message |-> m] :
        m \in {<<"Error", "code", "503">>, <<"Error", "code", "401">>, <<"500">>}} \cup
    {[kind |-> "error", hasmsg |-> FALSE, message |-> <<>>]}

\* as wrapper_step, for a wrapper that lets the exception of the last attempt through
wrapper_step_raising(w, o) ==
    LET error_msg == IF o.hasmsg THEN o.message ELSE <<"Unknown", "error">>
        called == [w EXCEPT !.calls = Append(@, o)]
    IN  IF o.kind = "value" \/ (o.kind = "error" /\ ~names_retryable_code(error_msg))
        THEN [called EXCEPT !.st = "returned", !.result = o]
        ELSE IF w.retry = w.max_retries
        THEN [called EXCEPT !.st = "raised", !.last_exception = error_msg]
        ELSE [called EXCEPT !.last_exception = error_msg,
                            !.slept = @ + (IF w.delay < max_delay THEN w.delay ELSE max_delay),
                            !.delay = @ * backoff_factor,
                            !.retry = @ + 1]

\* one round of the loop of wrapper (lines 50-73) in which func gives o: a
\* value or an error dict that names no retryable code is returned as it is;
\* an exception, raised by func or by line 58 with the error message, is kept
\* in last_exception and either ends the call with the error value of line 67
\* or is followed by a sleep and the next round
wrapper_step(w, o) ==
    LET error_msg == IF o.hasmsg THEN o.message ELSE <<"Unknown", "error">>
        called == [w EXCEPT !.calls = Append(@, o)]
    IN  IF o.kind = "value" \/ (o.kind = "error" /\ ~names_retryable_code(error_msg))
        THEN [called EXCEPT !.st = "returned", !.result = o]
        ELSE IF w.retry = w.max_retries
        THEN [called EXCEPT !.st = "returned", !.last_exception = error_msg,
                            !.result = [kind |-> "error", hasmsg |-> TRUE,
                                        message |-> error_msg]]
        ELSE [called EXCEPT !.last_exception = error_msg,
                            !.slept = @ + (IF w.delay < max_delay THEN w.delay ELSE max_delay),
                            !.delay = @ * backoff_factor,
                            !.retry = @ + 1]

\* a call of a function decorated with retry_with_backoff(max_retries) has
\* begun (lines 47-48); line 75 is not reached when max_retries >= 0
InitRetry ==
    /\ files = EmptyTree
    /\ now = 0
    /\ ncalls = 0 /\ ndeletes = 0 /\ proc = "A1" /\ last = NoCall /\ failed = {}
    /\ NoBatch
    /\ layout = NoLayout
    /\ writing = {}
    /\ ballots = <<>>
    /\ verdict = NoVerdict
    /\ \E m \in 0..MaxRetries :
          wrapper = [NoWrapper EXCEPT !.max_retries = m, !.delay = initial_delay,
                                      !.st = "running"]

Attempt(o) ==
    /\ wrapper.st = "running"
    /\ wrapper.retry <= wrapper.max_retries
    /\ wrapper' = wrapper_step(wrapper, o)
    /\ UNCHANGED <<files, now, ncalls, ndeletes, proc, last, failed, batchVars,
                   layout, writing, ballots, verdict>>

NextRetry == \E o \in FuncOutcomes : Attempt(o)

SpecRetry == InitRetry /\ [][NextRetry]_vars


-----------------------------------------------------------------------------
(* Claims about one processor *)

IsCall == last.a # ""
SingleCall == IsCall /\ Configs[last.a].num_samples = 1
SamplingCall == IsCall /\ Configs[last.a].num_samples > 1
OwnOfLast == SamplePaths[last.a][last.img]
\* a cache entry that exists and holds a non-empty result payload
ValidEntry(c) == c.st = "full" /\ Truthy(c.result)
NumLoaded(cs) == Cardinality({k \in DOMAIN cs : cs[k].st = "full"})

\* C1: in single-result mode, a call for an image whose cache file exists and
\* holds a non-empty result payload returns that cached result and does not
\* invoke the annotator.
C1_CacheHitSingle ==
    (SingleCall /\ ValidEntry(last.pre[1]))
        => (~last.invoked /\ last.ret = Ret(TRUE, <<last.pre[1]>>) /\ last.written = {})

C1_Witness == SingleCall /\ ValidEntry(last.pre[1]) /\ ~last.invoked /\ last.ret.some

C5_NeverMutated ==
    IsCall => /\ last.frame
              /\ \A k \in DOMAIN last.pre :
                     ValidEntry(last.pre[k]) => last.post[k] = last.pre[k]

\* C5 amended: a call never changes an entry of another image or annotator; in
\* single-result mode it never changes a valid entry; in sampling mode it
\* changes no entry when all num_samples entries of the image load.
C5_MutatedOnlyOnRedrive ==
    IsCall => /\ last.frame
              /\ (SingleCall /\ ValidEntry(last.pre[1])) => last.post = last.pre
              /\ (SamplingCall /\ NumLoaded(last.pre) = Configs[last.a].num_samples)
                    => last.post = last.pre

\* after one entry was deleted, a single-result call recomputes it while the
\* other entries of the tree are still there
C5_Witness ==
    /\ SingleCall /\ ndeletes = 1
    /\ last.pre[1] = Absent /\ ValidEntry(last.post[1]) /\ last.frame
    /\ \A p \in Paths \ {OwnOfLast[1]} : files[p] = FullTree[p]

\* C6 as stated: in sampling mode, a call for an image with some but not all
\* sample entries cached requests only the missing samples: no present sample
\* entry is written again.
C6_OnlyMissingSamples ==
    (SamplingCall /\ NumLoaded(last.pre) > 0
                  /\ NumLoaded(last.pre) < Configs[last.a].num_samples)
        => \A k \in DOMAIN last.pre :
               last.pre[k].st = "full" => OwnOfLast[k] \notin last.written

\* C6 amended: such a call invokes the annotator for all samples again and
\* writes the entry of every sample it saves, present or not, with the result
\* and the time of this call; only the entries it does not write are kept.
C6_RedriveAllSamples ==
    (SamplingCall /\ NumLoaded(last.pre) < Configs[last.a].num_samples)
        => /\ last.invoked
           /\ \A k \in DOMAIN last.pre :
                  IF OwnOfLast[k] \in last.written
                  THEN \/ last.post[k] = Partial
                       \/ last.post[k] = Content("full", last.post[k].result, now, k - 1)
                  ELSE last.post[k] = last.pre[k]

C6_Witness ==
    /\ SamplingCall /\ NumLoaded(last.pre) > 0
    /\ NumLoaded(last.pre) < Configs[last.a].num_samples
    /\ \E k \in DOMAIN last.pre :
           /\ last.pre[k].st = "full" /\ OwnOfLast[k] \in last.written
           /\ last.post[k].st = "full" /\ last.post[k] # last.pre[k]

\* C7: every cache entry written by a call has the shape
\* result.fields = non-empty list of fields.
C7_OnlyFieldListsPersisted ==
    IsCall => \A k \in DOMAIN last.post :
                  (OwnOfLast[k] \in last.written /\ last.post[k].st = "full")
                      => HasFieldList(last.post[k].result)

\* C9: when the annotator call fails, the call returns no result and leaves
\* the cache as it was, and the next call for the image invokes the annotator
\* again.
C9_FailureMeansNoResult ==
    /\ (IsCall /\ last.afail) =>
           /\ ~last.ret.some /\ last.written = {}
           /\ last.post = last.pre /\ last.frame
    /\ (IsCall /\ last.again) => last.invoked

C9_Witness == IsCall /\ last.again /\ last.invoked /\ last.afail

-----------------------------------------------------------------------------
(* Claims about the batch and the process pool *)

VotedFile(k) == files[voted_path(image_files[k])]
SecondRunOver == run = "second" /\ phase = "finished"
TasksDone(a) == \A k \in DOMAIN image_files : task[a][k].st = "done"

\* C2: when every cache slot of the batch holds a valid result at the start of
\* the second run, the second run invokes no annotator.
C2_NoRemoteCallOnRerun == (run = "second" /\ fullAtStart) => remote = 0

C8_ImageFailureIsolated ==
    \A a \in Annotators :
        /\ unit[a] # "raised"
        /\ \A k \in DOMAIN image_files : ~task[a][k].raised
        /\ unit[a] = "done" => TasksDone(a)
        /\ unit[a] = "running" =>
               \A k \in DOMAIN image_files :
                   /\ (task[a][k].st = "queued" /\ pool_has_room(Active(a), max_workers))
                         => ENABLED TaskStart(a, k)
                   /\ task[a][k].st = "active" => ENABLED TaskFinish(a, k)

\* an image is processed to a result after the task of another image failed
C8_Witness ==
    \E a \in Annotators, j, k \in DOMAIN image_files :
        /\ unit[a] = "done"
        /\ task[a][j].st = "done" /\ ~task[a][j].ok
        /\ task[a][k].st = "done" /\ task[a][k].ok /\ task[a][k].late

\* C10: run_parallel starts one process per annotator config and returns only
\* when each of them has terminated; a running process can always take a
\* step, whatever became of its siblings, and ends only with every image
\* processed.
C10_OrchestratorCompletion ==
    /\ \A a \in Annotators :
           /\ nspawn[a] = Cardinality({k \in 1..si : annotator_configs[k] = a})
           /\ nspawn[a] <= 1
           /\ (unit[a] = "running" /\ \E b \in Annotators : unit[b] \in {"failed", "crashed"})
                 => ENABLED UnitStep(a)
           /\ (unit[a] = "done" /\ phase = "resolve") => TasksDone(a)
    /\ phase = "resolve" =>
           \A k \in DOMAIN annotator_configs :
               /\ nspawn[annotator_configs[k]] = 1
               /\ unit[annotator_configs[k]] \in Terminated

\* run_parallel has returned, one process failed or crashed and its sibling
\* processed all of its images
C10_Witness ==
    /\ phase = "resolve"
    /\ \E a, b \in Annotators :
           /\ unit[a] \in {"failed", "crashed"}
           /\ unit[b] = "done" /\ TasksDone(b)
           /\ \E k \in DOMAIN image_files : task[b][k].late

-----------------------------------------------------------------------------
(* Claims about the choice of the voter and the voting loop *)

\* no file of the voting phase exists
NothingVoted == \A p \in VotingPaths \ ProcessorPaths : files[p] = Absent

C18_ConfigErrorBeforeWork ==
    phase \in {"NotImplementedError", "ValueError"} =>
        /\ remote = 0
        /\ \A p \in Paths : files[p] = Absent

\* C19: a round of the voting loop over an image without any cached result
\* raises and leaves no voted result for the image.
C19_NoDataFails ==
    \A i \in DOMAIN voteLog :
        (voteLog[i].made /\ voteLog[i].collected = 0 /\ voteLog[i].slots = 0)
            => /\ voteLog[i].raised
               /\ ~voteLog[i].wrote
               /\ VotedFile(i) = Absent

\* C20: a round of the voting loop that raises, in get_voted_result or in
\* save_as_json, does not end the run: the loop makes a round for every image,
\* in their order, and run_batch_annotation returns without an exception.
C20_VotingLoopIsolation ==
    /\ phase # "Exception"
    /\ phase = "vote" =>
           /\ vi <= Len(image_files)
           /\ \A i \in DOMAIN voteLog : voteLog[i].made <=> i <= vi
    /\ phase = "finished" => \A i \in DOMAIN voteLog : voteLog[i].made

\* the round of the first image raised, the round of the second image wrote
\* its voted result and the run has returned
C20_Witness ==
    /\ phase = "finished"
    /\ voteLog[1].made /\ voteLog[1].raised
    /\ voteLog[2].made /\ ~voteLog[2].raised /\ voteLog[2].wrote

-----------------------------------------------------------------------------
(* Claims about the voters *)

FieldNames == {"total", "date"}
FieldValues == {"10", "70", "d1", "d2", ""}

\* the field entries of the results that name the field n with a value of vals:
\* <<k, j>> is entry j of result k
Entries(n, vals) ==
    {e \in (DOMAIN ballots) \X (1..2) :
        /\ ballots[e[1]].result.hasFields
        /\ e[2] \in DOMAIN ballots[e[1]].result.flds
        /\ ballots[e[1]].result.flds[e[2]].field_name = n
        /\ ballots[e[1]].result.flds[e[2]].value \in vals}

\* weight(voterId) * confidence of one entry, in hundredths
EntryScore(e) ==
    (IF ballots[e[1]].id = "v1" THEN 1 ELSE IF ballots[e[1]].id = "v2" THEN 2 ELSE 1)
        * (IF ballots[e[1]].result.flds[e[2]].confidence = -1 THEN 100
           ELSE ballots[e[1]].result.flds[e[2]].confidence)

RECURSIVE SumScores(_)
SumScores(es) ==
    IF es = {} THEN 0
    ELSE LET e == CHOOSE x \in es : TRUE
         IN  EntryScore(e) + SumScores(es \ {e})

\* the result of the weighted vote is the one described, the values of vals
\* being those that count as supplied
WeightedResultOver(vals) ==
    verdict.voter = "WeightedVoter" =>
        /\ verdict.raised <=> Len(ballots) = 0
        /\ ~verdict.raised =>
               LET out == verdict.result.flds
               IN  /\ \A n \in FieldNames :
                          Cardinality({k \in DOMAIN out : out[k].field_name = n})
                              = (IF Entries(n, vals) # {} THEN 1 ELSE 0)
                   /\ \A k \in DOMAIN out :
                          LET n == out[k].field_name
                              score == SumScores(Entries(n, {out[k].value}))
                              total == SumScores(Entries(n, vals))
                          IN  /\ out[k].value \in vals
                              /\ Entries(n, {out[k].value}) # {}
                              /\ \A v \in vals : SumScores(Entries(n, {v})) <= score
                              /\ IF total > 0
                                 THEN /\ out[k].confidence * total <= 100 * score
                                      /\ 100 * score < (out[k].confidence + 1) * total
                                 ELSE out[k].confidence = 0

\* v1 (weight 1.0, confidence 0.6, "10") and v2 (weight 2.0, confidence 0.9, "70")
ExampleBallots ==
    <<Ballot("v1", Obj(TRUE, <<Field("total", "10", 60)>>, 0)),
      Ballot("v2", Obj(TRUE, <<Field("total", "70", 90)>>, 0))>>

\* C14 (as stated): for every field name, the score of a value is the sum of
\* weight * confidence over the voters whose result lists the field with that
\* value (confidence 1.0 when absent, weight 1.0 for an id without a weight),
\* the selected value has the highest score and its confidence is its score
\* divided by the sum of the scores of the field.
C14_WeightedVoteResult == WeightedResultOver(FieldValues)

\* C14 (amended): the same over the entries whose value is not empty; an entry
\* with an empty value is passed over, like a field that the voter does not
\* list, and the confidence is 0 when the scores of the field sum to 0.  The
\* vote of the example gives "70" with confidence 0.75.
C14_WeightedVoteNonEmpty ==
    /\ WeightedResultOver(FieldValues \ {""})
    /\ (verdict.voter = "WeightedVoter" /\ ballots = ExampleBallots)
           => verdict.result.flds = <<Field("total", "70", 75)>>

\* the vote of the example has been taken
C14_Witness ==
    /\ verdict.voter = "WeightedVoter"
    /\ ballots = ExampleBallots
    /\ verdict.result.flds = <<Field("total", "70", 75)>>

\* the results in the sorted order of their voter ids
SortedBallots ==
    LET rank(id) == CHOOSE r \in 1..4 : <<"v1", "v2", "v3", "v4">>[r] = id
    IN  [k \in DOMAIN ballots |->
            ballots[CHOOSE j \in DOMAIN ballots :
                        Cardinality({i \in DOMAIN ballots :
                                        rank(ballots[i].id) < rank(ballots[j].id)}) = k - 1]]

\* C15: the value that the vote selects for a field is the one that it selects
\* when the voters are gone through in the sorted order of their ids, so that
\* a tie does not depend on the order in which the results were collected.
C15_TieBreakSortedOrder ==
    (verdict.voter = "WeightedVoter" /\ ~verdict.raised) =>
        LET sorted == vote(ballot_annotations(SortedBallots), ballot_ids(SortedBallots),
                           VoteWeights).result.flds
        IN  \A k \in DOMAIN verdict.result.flds :
                \E j \in DOMAIN sorted :
                    /\ sorted[j].field_name = verdict.result.flds[k].field_name
                    /\ sorted[j].value = verdict.result.flds[k].value

\* the voters whose result lists the field n with the value v
VotersFor(n, v) == {e[1] : e \in Entries(n, {v})}

\* C16: for every field name seen in a result, the majority vote selects a
\* value that the most voters list, whatever their weights and confidences.
C16_MajorityVoteResult ==
    verdict.voter = "MajorityVoter" =>
        /\ ~verdict.raised
        /\ LET out == verdict.result.flds
           IN  /\ \A n \in FieldNames :
                      Cardinality({k \in DOMAIN out : out[k].field_name = n})
                          = (IF Entries(n, FieldValues) # {} THEN 1 ELSE 0)
               /\ \A k \in DOMAIN out, v \in FieldValues :
                      Cardinality(VotersFor(out[k].field_name, v))
                          <= Cardinality(VotersFor(out[k].field_name, out[k].value))

\* three voters, two for "70" at confidence 0 and one for "10" at confidence
\* 0.6, and the majority vote has selected "70"
C16_Witness ==
    /\ verdict.voter = "MajorityVoter"
    /\ Len(ballots) = 3
    /\ Cardinality(VotersFor("total", "70")) = 2
    /\ Cardinality(VotersFor("total", "10")) = 1
    /\ \E k \in DOMAIN ballots :
           ballots[k].result.flds = <<Field("total", "10", 60)>>
    /\ \A k \in DOMAIN ballots :
           ballots[k].result.flds # <<Field("total", "10", 60)>>
               => ballots[k].result.flds = <<Field("total", "70", 0)>>
    /\ verdict.result.flds = <<Field("total", "70", -1)>>

-----------------------------------------------------------------------------
(* Claims about the directory layout *)

\* C11: no two saves under way at the same time write the same path:
\* distinct (annotator, image, sample) triples of a run have distinct paths.
C11_SingleWriterPerPath ==
    \A w1, w2 \in writing :
        w1 # w2 => save_path(<<w1[1], w1[2]>>, w1[3]) # save_path(<<w2[1], w2[2]>>, w2[3])

-----------------------------------------------------------------------------
(* Claims about the processes of run_parallel and the batch driver *)

\* C12: at every moment of process_images, the images of one annotator that
\* are being processed, each with its annotate() call in flight, are at most
\* max_workers.
C12_BoundedConcurrency ==
    \A a \in Annotators : Cardinality(Active(a)) <= max_workers

\* the pool of an annotator is full and one of its tasks waits for a thread
C12_Witness ==
    \E a \in Annotators :
        /\ unit[a] = "running"
        /\ Cardinality(Active(a)) = max_workers
        /\ \E k \in DOMAIN image_files : task[a][k].st = "queued"

\* a process of run_parallel that has not terminated
StillRunning(a) == unit[a] \in {"started", "running"}

\* C13: collection and voting start only after run_parallel has returned: no
\* voter is chosen and no image is voted on while a process of an annotator
\* is still running.
C13_VoteAfterRunAll ==
    (\/ phase \in {"resolve", "vote", "finished", "Exception"}
     \/ voter # "none"
     \/ \E i \in DOMAIN voteLog : voteLog[i].made)
        => /\ si = Len(annotator_configs)
           /\ \A k \in DOMAIN annotator_configs :
                  /\ ~StillRunning(annotator_configs[k])
                  /\ unit[annotator_configs[k]] \in Terminated

\* an image has been voted on after both processes ran to their end, one of
\* them with annotate() calls in flight at the same time
C13_Witness ==
    /\ voteLog[1].made
    /\ remote > 0
    /\ \A k \in DOMAIN annotator_configs : unit[annotator_configs[k]] \in {"done", "raised"}
    /\ \E a \in Annotators : TasksDone(a)

-----------------------------------------------------------------------------
(* Claims about what the voting phase reads and writes *)

\* the files of the voted-results directory
VotedPaths == {voted_path(img) : img \in Images}

\* C21: a round of the voting loop invokes no annotator and leaves every file
\* outside the voted-results directory as it was.
C21_VotingReadsOnly ==
    [][(phase = "vote" /\ vi' # vi)
          => /\ remote' = remote
             /\ \A p \in Paths \ VotedPaths : files'[p] = files[p]]_vars

\* C22: every voted-result file that a run leaves has metadata with the voter
\* ids that were voted on (annotators), task_id, image_path and timestamp.
C22_VotedMetadataComplete ==
    phase = "finished" =>
        \A k \in DOMAIN image_files :
            VotedFile(k).st = "full" =>
                /\ {"annotators", "task_id", "image_path", "timestamp"} \subseteq VotedFile(k).mkeys
                /\ VotedFile(k).annotators = voteLog[k].ids

\* the voter id of sample k of a sampling annotator
sample_voter_id(cfg, k) ==
    cfg.name \o "/" \o cfg.model \o "/sample_" \o (IF k = 1 THEN "0" ELSE "1")

\* C23: in a round of the voting loop, every sample of a sampling annotator
\* that is in the cache for the image is handed to the voter under its own
\* voter id name/model/sample_i.
C23_SamplesAreVoters ==
    \A i \in DOMAIN voteLog, j \in DOMAIN annotator_configs :
        LET a == annotator_configs[j]
            own == SamplePaths[a][image_files[i]]
        IN  (voteLog[i].made /\ Configs[a].num_samples > 1) =>
                \A k \in DOMAIN own :
                    Loads(files[own[k]]) =>
                        \E x \in DOMAIN voteLog[i].ids :
                            voteLog[i].ids[x] = sample_voter_id(Configs[a], k)

-----------------------------------------------------------------------------
(* Claims about collect_annotations *)

\* the annotators of the manager whose result file for image k exists and loads
Loadable(k) ==
    {a \in {annotator_configs[j] : j \in DOMAIN annotator_configs} :
        files[voter_path(Configs[a], image_files[k])].st = "full"}

\* C24: the map that collect_annotations returns has exactly the voters whose
\* result file for the image exists and loads, each with what its file holds;
\* a file that is missing or does not load leaves its voter out and nothing
\* else.
C24_CollectTolerant ==
    vi # 0 =>
        /\ {ballots[j].id : j \in DOMAIN ballots} = {voter_id(Configs[a]) : a \in Loadable(vi)}
        /\ \A i, j \in DOMAIN ballots : ballots[i].id = ballots[j].id => i = j
        /\ \A j \in DOMAIN ballots :
               \E a \in Loadable(vi) :
                   /\ voter_id(Configs[a]) = ballots[j].id
                   /\ ballots[j].result = files[voter_path(Configs[a], image_files[vi])].result

\* three annotators, the file of one voter does not load and the file of the
\* other is there: the map has the one entry
C24_Witness ==
    /\ vi # 0
    /\ Len(annotator_configs) = 3
    /\ \E a \in Annotators : files[voter_path(Configs[a], image_files[vi])] = Partial
    /\ Len(ballots) = 1
    /\ Cardinality(Loadable(vi)) > 0

-----------------------------------------------------------------------------
(* Claims about the arguments of the voter *)

\* C25: a call of WeightedVoter.vote leaves the annotation results, the list
\* of voter ids and the weight map as they were before the call.
C25_VoteLeavesInputs ==
    verdict.voter = "WeightedVoter" =>
        /\ verdict.inputs.annotations = ballot_annotations(ballots)
        /\ verdict.inputs.annotator_ids = ballot_ids(ballots)
        /\ verdict.inputs.weights = VoteWeights

\* a vote was taken over a result with a field without confidence, from a
\* voter without a weight
C25_Witness ==
    /\ verdict.voter = "WeightedVoter"
    /\ ~verdict.raised
    /\ \E k \in DOMAIN ballots :
           /\ ballots[k].id \notin DOMAIN VoteWeights
           /\ ballots[k].result.hasFields
           /\ \E j \in DOMAIN ballots[k].result.flds :
                  ballots[k].result.flds[j].confidence = -1
    /\ \E j \in DOMAIN verdict.result.flds : verdict.result.flds[j].confidence = 100

-----------------------------------------------------------------------------
(* Claims about the keys under which results are filed and weighted *)

\* the annotators of the run that have a loadable result for image i in the
\* directory of their processor
Persisted(i) ==
    {a \in {annotator_configs[j] : j \in DOMAIN annotator_configs} :
        \E k \in DOMAIN SamplePaths[a][image_files[i]] :
            Loads(files[SamplePaths[a][image_files[i]][k]])}

\* C26: the path at which the collector looks for the result of an annotator
\* is the path at which the processor of the annotator saved it, so that a
\* round of the voting loop finds every result that the processors saved.
C26_FilingKeyAgreement ==
    phase \in {"resolve", "vote", "finished"} =>
        \A i \in DOMAIN image_files :
            /\ \A a \in Persisted(i) :
                   \E k \in DOMAIN SamplePaths[a][image_files[i]] :
                       voter_path(Configs[a], image_files[i]) = SamplePaths[a][image_files[i]][k]
            /\ voteLog[i].made => voteLog[i].collected >= Cardinality(Persisted(i))

\* C27: the id under which the result of an annotator reaches the weighted
\* voter is a key of the configured weights, and the weight that the voter
\* applies to it is the weight configured for the annotator.
C27_WeightKeyAgreement ==
    (phase \in {"vote", "finished"} /\ voter = "WeightedVoter") =>
        \A j \in DOMAIN annotator_configs :
            /\ voter_id(Configs[annotator_configs[j]])
                   \in DOMAIN get_annotator_weights(annotator_configs)
            /\ get_weight(get_annotator_weights(annotator_configs),
                          voter_id(Configs[annotator_configs[j]]))
                   = Configs[annotator_configs[j]].weight

-----------------------------------------------------------------------------
(* Claims about the end of the run *)

\* the images whose round of the voting loop raised
FailedRounds == {i \in DOMAIN voteLog : voteLog[i].made /\ voteLog[i].raised}

\* C28: a run that completes reports the number of images processed and the
\* number of images that failed, as they were in the voting loop, and the loop
\* has made a round for every image.
C28_RunReport ==
    phase = "finished" =>
        /\ \A i \in DOMAIN voteLog : voteLog[i].made
        /\ "failed" \in DOMAIN run_report(image_files)
        /\ run_report(image_files).failed = Cardinality(FailedRounds)
        /\ run_report(image_files).images = Len(image_files) - Cardinality(FailedRounds)

-----------------------------------------------------------------------------
(* Claims about a call in sampling mode *)

\* the completions of the last call that parse to a non-empty result
ValidSamples ==
    {k \in DOMAIN last.texts : Truthy(parse_json_from_text(last.texts[k]))}

\* the samples of the last call whose save went through
SavedSamples ==
    {k \in ValidSamples : OwnOfLast[k] \in last.written /\ last.post[k].st = "full"}

\* the members of seq whose index is in idx, in their order
RECURSIVE Pick(_, _, _)
Pick(seq, idx, k) ==
    IF k > Len(seq) THEN <<>>
    ELSE (IF k \in idx THEN <<seq[k]>> ELSE <<>>) \o Pick(seq, idx, k + 1)

\* C29: a call in sampling mode that invokes the annotator and gets n
\* completions of which k validate writes only the entries of those k, each in
\* the directory of its own sample index with its own sample id, leaves the
\* entries of the others as they were, and, when its saves go through, returns
\* the list of those k results (no result when k = 0); the annotator is not
\* invoked again in the call.
C29_SamplingPartialFailure ==
    (SamplingCall /\ last.invoked /\ ~last.afail /\ ~last.killed) =>
        /\ Len(last.texts) = Configs[last.a].num_samples
        /\ last.written \subseteq {OwnOfLast[k] : k \in ValidSamples}
        /\ \A k \in DOMAIN last.texts :
               IF k \in SavedSamples
               THEN last.post[k] =
                        Content("full", parse_json_from_text(last.texts[k]), now, k - 1)
               ELSE k \notin ValidSamples => last.post[k] = last.pre[k]
        /\ last.ret.some <=> ValidSamples # {}
        /\ Len(last.ret.vals) = Cardinality(ValidSamples)
        /\ SavedSamples = ValidSamples =>
               /\ last.written = {OwnOfLast[k] : k \in ValidSamples}
               /\ last.ret.vals = Pick(last.post, ValidSamples, 1)

\* of two completions only the second validated: it was saved as sample 1 and
\* the call returned a list of one result
C29_Witness ==
    /\ SamplingCall /\ last.invoked /\ ~last.killed
    /\ ValidSamples = {2}
    /\ last.written = {OwnOfLast[2]}
    /\ last.post[2].st = "full" /\ last.post[2].sample = 1
    /\ last.post[1] = last.pre[1]
    /\ last.ret.some /\ Len(last.ret.vals) = 1

-----------------------------------------------------------------------------
(* Claims about the end of process_images *)

\* the tasks of the processes that a pool thread has taken
TasksTaken ==
    {x \in Annotators \X DOMAIN image_files : task[x[1]][x[2]].st \in {"active", "done"}}

\* every image of a running process has its one task, no image is processed
\* twice, and process_images is left only with every task over
C30_EveryImageOnce ==
    /\ remote <= Cardinality(TasksTaken)
    /\ \A a \in Annotators :
           /\ unit[a] = "running" =>
                  \A k \in DOMAIN image_files : task[a][k].st \in {"queued", "active", "done"}
           /\ unit[a] \in {"done", "raised"} => TasksDone(a)

\* C30: process_images hands each image of the list to the pool once, is left
\* only after every task is over, and is left at last: a process that runs
\* process_images terminates.
C30_ProcessImagesTerminates ==
    /\ []C30_EveryImageOnce
    /\ \A a \in Annotators : (unit[a] = "running") ~> (unit[a] \in Terminated)

\* a process with a pool of one thread has processed its two images, with an
\* annotate() call for each, and has left process_images
C30_Witness ==
    /\ max_workers = 1
    /\ \E a \in Annotators : unit[a] = "done" /\ TasksDone(a)
    /\ remote >= Len(image_files)

-----------------------------------------------------------------------------
(* Claims about retry_with_backoff *)

\* an invocation that failed in a way the wrapper retries: an exception, or
\* an error dict whose message holds one of the retryable status codes
RetryableFailure(o) ==
    \/ o.kind = "raise"
    \/ /\ o.kind = "error"
       /\ o.hasmsg
       /\ \E k \in DOMAIN o.message : o.message[k] \in {"408", "429", "500", "502", "503", "504"}

\* C31: a function wrapped by retry_with_backoff(max_retries = m) is invoked
\* at most m + 1 times in a call; every invocation but the last raised or
\* returned a retryable error status, such a failure is followed by another
\* invocation while fewer than m + 1 were made, and an invocation that
\* returns anything else is the last one and its value is returned as it is.
C31_BoundedRetries ==
    /\ Len(wrapper.calls) <= wrapper.max_retries + 1
    /\ wrapper.st = "running" => Len(wrapper.calls) = wrapper.retry
    /\ \A k \in DOMAIN wrapper.calls :
          IF RetryableFailure(wrapper.calls[k])
          THEN k = Len(wrapper.calls) =>
                   \/ wrapper.st = "running"
                   \/ k = wrapper.max_retries + 1
          ELSE /\ k = Len(wrapper.calls)
               /\ wrapper.st = "returned"
               /\ wrapper.result = wrapper.calls[k]

\* the wrapped function raised, then returned a retryable error status, then
\* returned an error status that is not retryable, which the call returned
C31_Witness ==
    /\ wrapper.st = "returned"
    /\ Len(wrapper.calls) = 3
    /\ wrapper.calls[1].kind = "raise"
    /\ wrapper.calls[2] = [kind |-> "error", hasmsg |-> TRUE, message |-> <<"Error", "code", "503">>]
    /\ wrapper.calls[3] = [kind |-> "error", hasmsg |-> TRUE, message |-> <<"Error", "code", "401">>]
    /\ wrapper.result = wrapper.calls[3]

\* C32: a call through retry_with_backoff never raises and never stays
\* without a next attempt: it returns, and when all max_retries + 1 attempts
\* failed it returns the error value {status: error, message: <last failure>}.
C32_WrapperNeverRaises ==
    /\ wrapper.st \in {"running", "returned"}
    /\ wrapper.st = "running" => wrapper.retry <= wrapper.max_retries
    /\ (/\ wrapper.st = "returned"
        /\ Len(wrapper.calls) = wrapper.max_retries + 1
        /\ RetryableFailure(wrapper.calls[Len(wrapper.calls)])) =>
           /\ wrapper.result.kind = "error"
           /\ wrapper.result.message = wrapper.calls[Len(wrapper.calls)].message
           /\ wrapper.result.message = wrapper.last_exception

\* all three attempts of a call with max_retries = 2 raised, and the call
\* returned the error value with the message of the last exception
C32_Witness ==
    /\ wrapper.st = "returned"
    /\ wrapper.max_retries = 2
    /\ Len(wrapper.calls) = 3
    /\ \A k \in 1..3 : wrapper.calls[k].kind = "raise"
    /\ wrapper.calls[2].message # wrapper.calls[3].message
    /\ wrapper.result = [kind |-> "error", hasmsg |-> TRUE, message |-> wrapper.calls[3].message]

-----------------------------------------------------------------------------
(* Claims about what a call leaves in the cache *)

\* C33: whenever a process_single_image call returns results that it produced
\* by invoking the annotator, each returned result is stored at a cache path
\* of the image when the call returns, also when the save step failed.
C33_ReturnedImpliesPersisted ==
    (IsCall /\ last.invoked /\ last.ret.some) =>
        \A j \in DOMAIN last.ret.vals :
            \E k \in DOMAIN last.post : last.post[k] = last.ret.vals[j]

\* a cache entry that exists and cannot be loaded, or loads with an empty
\* result payload
CorruptEntry(c) == c = Partial \/ (c.st = "full" /\ ~Truthy(c.result))

C35_SamplingCacheDecision ==
    SamplingCall =>
        /\ last.invoked <=> NumLoaded(last.pre) < Configs[last.a].num_samples
        /\ NumLoaded(last.pre) = Configs[last.a].num_samples =>
               /\ last.ret = Ret(TRUE, last.pre)
               /\ \A k \in DOMAIN last.pre : last.pre[k].sample = k - 1
               /\ last.written = {}
               /\ last.post = last.pre
               /\ last.frame

\* the second call for an image found both samples that the first call had
\* stored and returned them without invoking the annotator
C35_Witness ==
    /\ SamplingCall
    /\ ncalls = 2
    /\ NumLoaded(last.pre) = 2
    /\ \E k \in DOMAIN last.pre : last.pre[k].ts = 1
    /\ ~last.invoked
    /\ last.ret.vals = last.pre

-----------------------------------------------------------------------------
(* Claims about the voted-result file *)

\* every configured annotator answers when it is asked
AllAnswer ==
    [a \in {annotator_configs[k] : k \in DOMAIN annotator_configs} |->
        IF Configs[a].type = "openai"
        THEN RawList([k \in 1..Configs[a].num_samples |-> TBare])
        ELSE RawStr(TFenced)]

\* C36: when the voted-result file of an image exists, get_voted_result
\* returns its content, invokes no annotator and leaves every file as it is,
\* the voted-result file included, whatever the caches of the annotators
\* hold; a round of the voting loop that found the file invoked no annotator
\* and kept the voted result.
C36_VotedShortCircuit ==
    \A k \in DOMAIN image_files :
        /\ VotedFile(k).st = "full" =>
               \E v \in {get_voted_result(files, annotator_configs, image_files[k], AllAnswer,
                                          get_annotator_weights(annotator_configs))} :
                   /\ v.ret = VotedFile(k)
                   /\ ~v.raised
                   /\ v.invoked = 0
                   /\ v.files = files
        /\ (voteLog[k].made /\ votedBefore[k].st = "full") =>
               /\ voteLog[k].invoked = 0
               /\ ~voteLog[k].raised
               /\ VotedFile(k).result = votedBefore[k].result

\* in the second run the round of an image found the voted-result file of the
\* first run while the result file of one of its voters was missing, and
\* invoked no annotator
C36_Witness ==
    /\ run = "second"
    /\ \E k \in DOMAIN image_files :
           /\ voteLog[k].made
           /\ votedBefore[k].st = "full"
           /\ voteLog[k].invoked = 0
           /\ VotedFile(k).result = votedBefore[k].result
           /\ \E j \in DOMAIN annotator_configs :
                  files[voter_path(Configs[annotator_configs[j]], image_files[k])] = Absent

-----------------------------------------------------------------------------
(* Claims about the field list of the weighted vote *)

\* the entries that count as votes for the field n: name and value not empty
Votes(n) == IF n = "" THEN {} ELSE Entries(n, FieldValues \ {""})

\* entry e comes before entry f when the results are gone through in order
Before(e, f) == e[1] < f[1] \/ (e[1] = f[1] /\ e[2] < f[2])

\* the results without the fields whose name or value is empty
ValidBallots ==
    [k \in DOMAIN ballots |->
        [ballots[k] EXCEPT !.result.flds =
            SelectSeq(@, LAMBDA f : f.field_name # "" /\ f.value # "")]]

\* C37: the field list of the weighted vote holds a field name at most once,
\* holds it exactly when some result has a field of that name with a name and
\* a value that are not empty, and lists the names in the order in which
\* their first such fields come in the results; the fields with an empty
\* name or value count for nothing: the vote over the results without them
\* is the same.
C37_WeightedVoteFields ==
    (verdict.voter = "WeightedVoter" /\ ~verdict.raised) =>
        LET out == verdict.result.flds
        IN  /\ \A i, j \in DOMAIN out : i # j => out[i].field_name # out[j].field_name
            /\ \A n \in FieldNames \cup {""} :
                   (\E k \in DOMAIN out : out[k].field_name = n) <=> Votes(n) # {}
            /\ \A k \in DOMAIN out : out[k].field_name \in FieldNames /\ out[k].value # ""
            /\ \A i, j \in DOMAIN out :
                   i < j => \E e \in Votes(out[i].field_name) :
                                \A f \in Votes(out[j].field_name) : Before(e, f)
            /\ verdict.result =
                   vote(ballot_annotations(ValidBallots), ballot_ids(ballots), VoteWeights).result

\* the first result names "total" with an empty value and then "date", a later
\* one gives "total" a value, one has a field without a name, and the vote
\* lists "date" before "total"
C37_Witness ==
    /\ verdict.voter = "WeightedVoter"
    /\ Len(ballots) = 3
    /\ ballots[1].result.flds = <<Field("total", "", 80), Field("date", "d2", 50)>>
    /\ \E k \in 2..3 : Len(ballots[k].result.flds) = 2 /\ ballots[k].result.flds[1].field_name = ""
    /\ Votes("total") # {}
    /\ Len(verdict.result.flds) = 2
    /\ verdict.result.flds[1].field_name = "date"
    /\ verdict.result.flds[2].field_name = "total"


====
